---- MODULE Spec2Model ----
(***************************************************************************)
(* media-downloader: the extraction cache, the media service (list and     *)
(* download paths), the format normalizer / reducer and the format ranker. *)
(*                                                                         *)
(* Specifications:                                                         *)
(*   Spec         request goroutines running media.FetchMedia against the  *)
(*                shared resultCache, the sweep goroutines and the clock;  *)
(*   SpecDownloads  the list and the download handler served concurrently   *)
(*                within one clock unit;                                   *)
(*   SpecPair     one GET /api/quality on each request goroutine, the     *)
(*                sweep goroutines and the clock, with the scheduling of   *)
(*                the goroutines and of sync.RWMutex;                      *)
(*   SpecService  every operation of the service, one request at a time;   *)
(*   SpecCancel   listing through yt-dlp while clients go away, with the   *)
(*                scheduling of the goroutines;                            *)
(*   SpecFormats  the pure pipeline getFormats / CleanFormats /            *)
(*                SortFormats (and the split-schema variant of backend/)   *)
(*                applied to every bounded sequence of raw formats;        *)
(*   SpecSources  sources.IdentifySource applied to every bounded url.     *)
(*   SpecPipes    getRawMediaInfo reading the pipes of a started yt-dlp.    *)
(***************************************************************************)
EXTENDS Integers, Sequences, FiniteSets, TLC

VARIABLES
    raw,        \* SpecFormats: the raw formats handed to the pipeline
    impl,       \* SpecFormats: "internal" (capability schema) or "backend" (split schema)
    stage,      \* SpecFormats: "raw", "got", "cleaned", "sorted"
    media,      \* SpecFormats: the Media under construction
    cache,      \* resultCache.cache: url -> cacheEntry
    hasClean,   \* resultCache.hasClean
    sweepers,   \* the live startCleaning goroutines: what is left of each one's Sleep
    nextRid,    \* identity of the next goutubedl.Result (the pointer stored by Set)
    pc,         \* position of each request goroutine
    loc,        \* locals, arguments and return values of each request goroutine
    listed,     \* history: the list responses sent so far
    lastSet,    \* history: the last Set on each url
    failed,     \* history: the urls whose last goutubedl.New failed, no Set since
    unreaped,   \* the yt-dlp processes left behind: started, never waited for
    urlParam,   \* SpecSources: the bytes of the url handed to IdentifySource
    identified, \* SpecSources: the Source returned, "none" before the call
    cmd,        \* SpecPipes: the started yt-dlp: the writes it has left, and whether it exited
    stdout,     \* SpecPipes: chunks buffered in the stdout pipe
    stderr,     \* SpecPipes: chunks buffered in the stderr pipe
    stdoutBytes,\* SpecPipes: chunks getRawMediaInfo has read from stdout
    stderrBytes,\* SpecPipes: chunks getRawMediaInfo has read from stderr
    at          \* SpecPipes: position of getRawMediaInfo

fvars == <<raw, impl, stage, media>>

svars == <<cache, hasClean, sweepers, nextRid, pc, loc, listed, lastSet, failed,
          unreaped>>

uvars == <<urlParam, identified>>

pvars == <<cmd, stdout, stderr, stdoutBytes, stderrBytes, at>>

vars == <<raw, impl, stage, media,
          cache, hasClean, sweepers, nextRid, pc, loc, listed, lastSet, failed,
          unreaped,
          urlParam, identified,
          cmd, stdout, stderr, stdoutBytes, stderrBytes, at>>

(***************************************************************************)
(* Bounds                                                                  *)
(***************************************************************************)
\* longest raw format sequence the pipeline specification enumerates
MaxLen == 3
\* number of successful extractions (goutubedl.New) in one behaviour
MaxExtract == 2
\* a request that uses the cache arrives while fewer sweep goroutines than
\* this are alive
MaxSweepers == 2
\* chunks a pipe buffers before a write to it blocks
PipeCap == 2
\* the requests whose pipe read fails: yt-dlp processes left behind
MaxUnreaped == 1
\* chunks yt-dlp writes, to both pipes together, before it exits
MaxWrites == 4

(***************************************************************************)
(* Raw formats (goutubedl.Format / ytdlp.Format: the yt-dlp JSON record)   *)
(***************************************************************************)
RawFormat(id, note, ext, res, w, h, fps, vbr, abr, vc, ac, asr, fs, fsa) ==
    [FormatID |-> id, FormatNote |-> note, Ext |-> ext, Resolution |-> res,
     Width |-> w, Height |-> h, FPS |-> fps, VBR |-> vbr, ABR |-> abr,
     VCodec |-> vc, ACodec |-> ac, ASR |-> asr,
     Filesize |-> fs, FilesizeApprox |-> fsa]

\* The raw formats the inputs are drawn from.  Bitrates in kbit/s, sizes in
\* MB; video-only entries carry acodec "none", audio-only entries carry
\* vcodec "none" and resolution "audio only", as yt-dlp reports them.
RawPool ==
    { RawFormat("137", "1080p", "mp4",  "1920x1080", 1920, 1080, 30, 4000, 0, "avc1", "none", 0, 900, 0),
      RawFormat("399", "1080p", "mp4",  "1920x1080", 1920, 1080, 30, 6000, 0, "av01", "none", 0, 950, 0),
      RawFormat("299", "1080p", "mp4",  "1920x1080", 1920, 1080, 30, 6000, 0, "avc1", "none", 0, 950, 0),
      RawFormat("298", "1080p60", "mp4", "1920x1080", 1920, 1080, 60, 4000, 0, "avc1", "none", 0, 0, 920),
      RawFormat("136", "720p",  "mp4",  "1280x720",  1280, 720,  30, 6000, 0, "avc1", "none", 0, 500, 0),
      RawFormat("248", "1080p", "webm", "1920x1080", 1920, 1080, 30, 5000, 0, "vp9",  "none", 0, 700, 0),
      RawFormat("18",  "360p",  "mp4",  "640x360",   640,  360,  30, 500, 96, "avc1", "mp4a", 44100, 0, 300),
      RawFormat("134", "360p",  "mp4",  "640x360",   640,  360,  30, 600, 0, "avc1", "none", 0, 0, 0),
      RawFormat("160", "144p",  "mp4",  "256x144",   256,  144,  30, 0,   0, "avc1", "none", 0, 50, 0),
      RawFormat("394", "144p",  "mp4",  "256x144",   256,  144,  30, 80,  0, "av01", "none", 0, 5, 0),
      RawFormat("sb0", "storyboard", "mhtml", "48x27", 48, 27, 0, 0, 0, "none", "none", 0, 10, 0),
      RawFormat("140", "medium", "m4a",  "audio only", 0, 0, 0, 0, 128, "none", "mp4a", 44100, 30, 0),
      RawFormat("141", "medium", "m4a",  "audio only", 0, 0, 0, 0, 128, "none", "mp4a", 48000, 35, 0),
      RawFormat("139", "low",    "m4a",  "audio only", 0, 0, 0, 0, 48,  "none", "mp4a", 22050, 10, 0),
      RawFormat("251", "medium", "webm", "audio only", 0, 0, 0, 0, 160, "none", "opus", 48000, 40, 0),
      RawFormat("250", "low",    "webm", "audio only", 0, 0, 0, 0, 70,  "none", "opus", 48000, 0, 20) }

RawById(id) == CHOOSE f \in RawPool : f.FormatID = id

\* sequences of at most n raw formats with pairwise distinct FormatID
RECURSIVE RawSeqs(_)
RawSeqs(n) ==
    IF n = 0 THEN { <<>> }
    ELSE LET shorter == RawSeqs(n - 1)
         IN  shorter \cup
             { Append(s, f) : s \in { t \in shorter : Len(t) = n - 1 },
                              f \in RawPool }

Distinct(s) == \A i, j \in 1..Len(s) : i # j => s[i].FormatID # s[j].FormatID

Max(a, b) == IF a > b THEN a ELSE b

(***************************************************************************)
(* Normalizer (package youtube)                                            *)
(***************************************************************************)
\* sha256 of the FormatID, hex encoded (first 8 digits of the digest)
Sha256Hex(s) ==
    CASE s = "137" -> "d80eae6e" [] s = "399" -> "0f785409"
      [] s = "299" -> "30883104" [] s = "298" -> "76ebdb6d"
      [] s = "136" -> "36ebe205" [] s = "248" -> "766cb53c"
      [] s = "18"  -> "4ec9599f" [] s = "134" -> "5d389f5e"
      [] s = "160" -> "a512db27" [] s = "sb0" -> "680385c6"
      [] s = "140" -> "dbae772d" [] s = "141" -> "2c7d5490"
      [] s = "139" -> "8d27ba37" [] s = "251" -> "c75d3f1f"
      [] s = "250" -> "1e472b39" [] s = "22"  -> "785f3ec7"
      [] s = "394" -> "04d19fde"

\* the hash of the FormatID, of another value for another container
ytFormatHashWithExt(format) ==
    Sha256Hex(IF format.Ext = "mkv" THEN "22" ELSE format.FormatID)

ytFormatHash(format) == Sha256Hex(format.FormatID)

ytFormatToMedia(format, isVideo) ==
    [HasVideo |-> isVideo,
     VideoCodec |-> format.VCodec,
     VideoBitrate |-> format.VBR,
     VideoWidth |-> format.Width,
     VideoHeight |-> format.Height,
     VideoFPS |-> format.FPS,
     HasAudio |-> TRUE,
     AudioCodec |-> format.ACodec,
     AudioBitrate |-> format.ABR,
     AudioSampleRate |-> format.ASR,
     Extension |-> format.Ext,
     Size |-> Max(format.Filesize, format.FilesizeApprox),
     Source |-> "YouTube",
     SourceIdentifier |-> ytFormatHash(format)]

(***************************************************************************)
(* Reducer: getFormats                                                     *)
(***************************************************************************)
\* the first loop: storyboards and zero-size entries are ignored
Usable(format) ==
    /\ format.FormatNote # "storyboard"
    /\ ~(format.Filesize = 0 /\ format.FilesizeApprox = 0)

SplitVideo(youtubeFormats) ==
    SelectSeq(youtubeFormats, LAMBDA f : Usable(f) /\ f.Resolution # "audio only")

\* every usable format with an audio codec counts as an audio format
SplitAudioByCodec(youtubeFormats) ==
    SelectSeq(youtubeFormats, LAMBDA f : Usable(f) /\ f.ACodec # "none")

SplitAudio(youtubeFormats) ==
    SelectSeq(youtubeFormats, LAMBDA f : Usable(f) /\ f.Resolution = "audio only")

\* VideoSkip without the frame-rate test of lines 97-100
VideoSkipAnyFPS(videoFormats, i) ==
    \E j \in 1..Len(videoFormats) :
        /\ i # j
        /\ videoFormats[j].Ext = "mp4"
        /\ videoFormats[i].Width = videoFormats[j].Width
        /\ videoFormats[i].Height = videoFormats[j].Height
        /\ videoFormats[j].VBR > videoFormats[i].VBR

\* the inner loop over compareFormat: some other mp4 format of the same
\* resolution and fps has a higher bitrate
VideoSkip(videoFormats, i) ==
    \E j \in 1..Len(videoFormats) :
        /\ i # j
        /\ videoFormats[j].Ext = "mp4"
        /\ videoFormats[i].Width = videoFormats[j].Width
        /\ videoFormats[i].Height = videoFormats[j].Height
        /\ videoFormats[i].FPS = videoFormats[j].FPS
        /\ videoFormats[j].VBR > videoFormats[i].VBR

VideoKept(videoFormats, i) ==
    /\ videoFormats[i].Ext = "mp4"
    /\ ~VideoSkip(videoFormats, i)

AudioSkip(audioFormats, i) ==
    \E j \in 1..Len(audioFormats) :
        /\ i # j
        /\ audioFormats[i].Ext = audioFormats[j].Ext
        /\ audioFormats[j].ABR > audioFormats[i].ABR

AudioKept(audioFormats, i) == ~AudioSkip(audioFormats, i)

RECURSIVE FilterVideo(_, _)
FilterVideo(videoFormats, i) ==
    IF i > Len(videoFormats) THEN <<>>
    ELSE (IF VideoKept(videoFormats, i)
          THEN <<ytFormatToMedia(videoFormats[i], TRUE)>> ELSE <<>>)
         \o FilterVideo(videoFormats, i + 1)

RECURSIVE FilterAudio(_, _)
FilterAudio(audioFormats, i) ==
    IF i > Len(audioFormats) THEN <<>>
    ELSE (IF AudioKept(audioFormats, i)
          THEN <<ytFormatToMedia(audioFormats[i], FALSE)>> ELSE <<>>)
         \o FilterAudio(audioFormats, i + 1)

getFormats(youtubeFormats) ==
    FilterVideo(SplitVideo(youtubeFormats), 1)
    \o FilterAudio(SplitAudio(youtubeFormats), 1)

(***************************************************************************)
(* package info (capability schema): CleanFormats, SortFormats             *)
(***************************************************************************)
\* CleanFormats without the test of the bitrates
CleanKeepAnyBitrate(format) ==
    ~(~format.HasVideo /\ ~format.HasAudio)

CleanKeep(format) ==
    /\ ~(~format.HasVideo /\ ~format.HasAudio)
    /\ ~(format.VideoBitrate <= 0 /\ format.AudioBitrate <= 0)

CleanFormats(formats) == SelectSeq(formats, CleanKeep)

\* SortLess with the two results of lines 59-63 exchanged
SortLessVideoFirst(aFormat, bFormat) ==
    IF aFormat.HasVideo /\ ~bFormat.HasVideo THEN TRUE
    ELSE IF ~aFormat.HasVideo /\ bFormat.HasVideo THEN FALSE
    ELSE IF aFormat.HasVideo /\ bFormat.HasVideo
         THEN aFormat.VideoBitrate > bFormat.VideoBitrate
    ELSE IF aFormat.HasAudio /\ bFormat.HasAudio
         THEN aFormat.AudioBitrate > bFormat.AudioBitrate
    ELSE FALSE

\* the less function handed to sort.Slice
SortLess(aFormat, bFormat) ==
    IF aFormat.HasVideo /\ ~bFormat.HasVideo THEN FALSE
    ELSE IF ~aFormat.HasVideo /\ bFormat.HasVideo THEN TRUE
    ELSE IF aFormat.HasVideo /\ bFormat.HasVideo
         THEN aFormat.VideoBitrate > bFormat.VideoBitrate
    ELSE IF aFormat.HasAudio /\ bFormat.HasAudio
         THEN aFormat.AudioBitrate > bFormat.AudioBitrate
    ELSE FALSE

(***************************************************************************)
(* package info (split schema, backend/): comparators                      *)
(***************************************************************************)
BackendVideoLess(i, j) ==
    LET iRes == i.VideoWidth * i.VideoHeight
        jRes == j.VideoWidth * j.VideoHeight
    IN  IF iRes # jRes THEN iRes > jRes
        ELSE IF i.VideoBitrate # j.VideoBitrate
             THEN i.VideoBitrate > j.VideoBitrate
        ELSE i.Size > j.Size

BackendAudioLess(i, j) ==
    IF i.AudioBitrate # j.AudioBitrate
    THEN i.AudioBitrate > j.AudioBitrate
    ELSE i.Size > j.Size

Less(kind, a, b) ==
    CASE kind = "merged" -> SortLess(a, b)
      [] kind = "video"  -> BackendVideoLess(a, b)
      [] kind = "audio"  -> BackendAudioLess(a, b)

(***************************************************************************)
(* sort.Slice on at most 12 elements is an insertion sort:                 *)
(*   for i := a+1; i < b; i++ {                                            *)
(*     for j := i; j > a && less(j, j-1); j-- { swap(j, j-1) } }           *)
(***************************************************************************)
Swap(s, i, j) == [s EXCEPT ![i] = s[j], ![j] = s[i]]

RECURSIVE SiftDown(_, _, _)
SiftDown(kind, s, j) ==
    IF j > 1 /\ Less(kind, s[j], s[j - 1])
    THEN SiftDown(kind, Swap(s, j, j - 1), j - 1)
    ELSE s

RECURSIVE InsertionSort(_, _, _)
InsertionSort(kind, s, i) ==
    IF i > Len(s) THEN s
    ELSE InsertionSort(kind, SiftDown(kind, s, i), i + 1)

SortSlice(kind, s) == InsertionSort(kind, s, 2)

SortFormats(formats) == SortSlice("merged", formats)

BackendCleanVideo(videoFormats) ==
    SelectSeq(videoFormats, LAMBDA f : ~(f.VideoBitrate <= 0))

BackendCleanAudio(audioFormats) ==
    SelectSeq(audioFormats, LAMBDA f : ~(f.AudioBitrate <= 0))

BackendSortVideo(videoFormats) == SortSlice("video", videoFormats)

BackendSortAudio(audioFormats) == SortSlice("audio", audioFormats)

(***************************************************************************)
(* package ytdlp: getVideoFormats, getAudioFormats                         *)
(***************************************************************************)
ToVideoFormat(format) ==
    [VideoCodec |-> format.VCodec,
     VideoBitrate |-> format.VBR,
     VideoWidth |-> format.Width,
     VideoHeight |-> format.Height,
     VideoFPS |-> format.FPS,
     Extension |-> format.Ext,
     Size |-> Max(format.Filesize, format.FilesizeApprox),
     Source |-> "YouTube",
     SourceIdentifier |-> format.FormatID]

ToAudioFormat(format) ==
    [AudioCodec |-> format.ACodec,
     AudioBitrate |-> format.ABR,
     AudioSampleRate |-> format.ASR,
     Extension |-> format.Ext,
     Size |-> Max(format.Filesize, format.FilesizeApprox),
     Source |-> "YouTube",
     SourceIdentifier |-> format.FormatID]

IsVideoOnly(format) ==
    /\ ~(format.ACodec # "none" \/ format.ACodec = "")
    /\ ~(format.VCodec = "none" \/ format.VCodec = "")

IsAudioOnly(format) ==
    /\ ~(format.VCodec # "none" \/ format.VCodec = "")
    /\ ~(format.ACodec = "none" \/ format.ACodec = "")

RECURSIVE MapSeq(_, _)
MapSeq(s, isVideo) ==
    IF s = <<>> THEN <<>>
    ELSE <<IF isVideo THEN ToVideoFormat(Head(s)) ELSE ToAudioFormat(Head(s))>>
         \o MapSeq(Tail(s), isVideo)

getVideoFormats(formats) == MapSeq(SelectSeq(formats, IsVideoOnly), TRUE)

getAudioFormats(formats) == MapSeq(SelectSeq(formats, IsAudioOnly), FALSE)

(***************************************************************************)
(* package sources: IdentifySource                                         *)
(***************************************************************************)
URLs == { "https://www.YouTube.com/watch?v=a", "https://example.com/v" }

\* the bytes of the url strings of the model
Bytes(url) ==
    CASE url = "https://www.YouTube.com/watch?v=a"
             -> <<"h", "t", "t", "p", "s", ":", "/", "/", "w", "w", "w", ".", "Y", "o", "u", "T", "u", "b", "e", ".", "c", "o", "m", "/", "w", "a", "t", "c", "h", "?", "v", "=", "a">>
      [] url = "https://example.com/v"
             -> <<"h", "t", "t", "p", "s", ":", "/", "/", "e", "x", "a", "m", "p", "l", "e", ".", "c", "o", "m", "/", "v">>

UpperLetters == <<"A", "B", "C", "D", "E", "F", "G", "H", "I", "J", "K", "L", "M", "N", "O", "P", "Q", "R", "S", "T", "U", "V", "W", "X", "Y", "Z">>
LowerLetters == <<"a", "b", "c", "d", "e", "f", "g", "h", "i", "j", "k", "l", "m", "n", "o", "p", "q", "r", "s", "t", "u", "v", "w", "x", "y", "z">>
Digits == {"0", "1", "2", "3", "4", "5", "6", "7", "8", "9"}

IsLetter(c) == \E i \in 1..26 : c = UpperLetters[i] \/ c = LowerLetters[i]

\* the 256 byte values, in order: a printable ASCII byte is written as its
\* character, every other byte (and the grave accent, 60) as its two
\* hexadecimal digits
ByteOf ==
    << "00", "01", "02", "03", "04", "05", "06", "07", "08", "09", "0A", "0B", "0C", "0D", "0E", "0F",
       "10", "11", "12", "13", "14", "15", "16", "17", "18", "19", "1A", "1B", "1C", "1D", "1E", "1F",
       " ", "!", "\"", "#", "$", "%", "&", "'", "(", ")", "*", "+", ",", "-", ".", "/",
       "0", "1", "2", "3", "4", "5", "6", "7", "8", "9", ":", ";", "<", "=", ">", "?",
       "@", "A", "B", "C", "D", "E", "F", "G", "H", "I", "J", "K", "L", "M", "N", "O",
       "P", "Q", "R", "S", "T", "U", "V", "W", "X", "Y", "Z", "[", "\\", "]", "^", "_",
       "60", "a", "b", "c", "d", "e", "f", "g", "h", "i", "j", "k", "l", "m", "n", "o",
       "p", "q", "r", "s", "t", "u", "v", "w", "x", "y", "z", "{", "|", "}", "~", "7F",
       "80", "81", "82", "83", "84", "85", "86", "87", "88", "89", "8A", "8B", "8C", "8D", "8E", "8F",
       "90", "91", "92", "93", "94", "95", "96", "97", "98", "99", "9A", "9B", "9C", "9D", "9E", "9F",
       "A0", "A1", "A2", "A3", "A4", "A5", "A6", "A7", "A8", "A9", "AA", "AB", "AC", "AD", "AE", "AF",
       "B0", "B1", "B2", "B3", "B4", "B5", "B6", "B7", "B8", "B9", "BA", "BB", "BC", "BD", "BE", "BF",
       "C0", "C1", "C2", "C3", "C4", "C5", "C6", "C7", "C8", "C9", "CA", "CB", "CC", "CD", "CE", "CF",
       "D0", "D1", "D2", "D3", "D4", "D5", "D6", "D7", "D8", "D9", "DA", "DB", "DC", "DD", "DE", "DF",
       "E0", "E1", "E2", "E3", "E4", "E5", "E6", "E7", "E8", "E9", "EA", "EB", "EC", "ED", "EE", "EF",
       "F0", "F1", "F2", "F3", "F4", "F5", "F6", "F7", "F8", "F9", "FA", "FB", "FC", "FD", "FE", "FF" >>

\* the value of a byte
ValOf == [c \in { ByteOf[v] : v \in 1..256 } |->
             (CHOOSE v \in 1..256 : ByteOf[v] = c) - 1]

\* net/url stringContainsCTLByte: b < ' ' || b == 0x7f
IsCTLByte(c) == ValOf[c] < 32 \/ ValOf[c] = 127

\* c >= utf8.RuneSelf
IsHighByte(c) == ValOf[c] >= 128

HexDigits == <<"0", "1", "2", "3", "4", "5", "6", "7", "8", "9",
               "a", "b", "c", "d", "e", "f", "A", "B", "C", "D", "E", "F">>

\* net/url ishex and unhex
ishex(c) == \E i \in 1..22 : HexDigits[i] = c

unhex(c) ==
    LET i == CHOOSE j \in 1..22 : HexDigits[j] = c
    IN  IF i <= 16 THEN i - 1 ELSE i - 7

\* strings.Index and strings.LastIndex of a byte, counted from 1; 0: absent
Index(s, c) ==
    IF \E i \in 1..Len(s) : s[i] = c
    THEN CHOOSE i \in 1..Len(s) : s[i] = c /\ \A j \in 1..(i - 1) : s[j] # c
    ELSE 0

LastIndex(s, c) ==
    IF \E i \in 1..Len(s) : s[i] = c
    THEN CHOOSE i \in 1..Len(s) : s[i] = c /\ \A j \in (i + 1)..Len(s) : s[j] # c
    ELSE 0

HasPrefix(s, prefix) ==
    Len(s) >= Len(prefix) /\ SubSeq(s, 1, Len(prefix)) = prefix

\* s[i:] of Go with i counted from 1: the bytes from position i on
From(s, i) == SubSeq(s, i, Len(s))

\* the first value of strings.Cut(s, sep) for a one byte sep
CutBefore(s, sep) ==
    IF Index(s, sep) = 0 THEN s ELSE SubSeq(s, 1, Index(s, sep) - 1)

\* net/url getScheme
getScheme(rawURL) ==
    LET InScheme(i) == \/ IsLetter(rawURL[i])
                       \/ i > 1 /\ rawURL[i] \in Digits \cup {"+", "-", "."}
        stop == IF \E i \in 1..Len(rawURL) : ~InScheme(i)
                THEN CHOOSE i \in 1..Len(rawURL) :
                        ~InScheme(i) /\ \A j \in 1..(i - 1) : InScheme(j)
                ELSE 0
    IN  IF stop = 0 \/ rawURL[stop] # ":"
        THEN [err |-> FALSE, scheme |-> <<>>, rest |-> rawURL]
        ELSE IF stop = 1
        THEN [err |-> TRUE, scheme |-> <<>>, rest |-> <<>>]
        ELSE [err |-> FALSE, scheme |-> SubSeq(rawURL, 1, stop - 1),
              rest |-> From(rawURL, stop + 1)]

\* net/url validOptionalPort
validOptionalPort(port) ==
    \/ port = <<>>
    \/ /\ port[1] = ":"
       /\ \A i \in 2..Len(port) : port[i] \in Digits

\* net/url shouldEscape(c, encodeHost) is false
HostByte(c) ==
    \/ IsLetter(c) \/ c \in Digits
    \/ c \in {"-", "_", ".", "~", "!", "$", "&", "'", "(", ")", "*", "+",
              ",", ";", "=", ":", "[", "]", "<", ">", "\""}

\* net/url unescape reports an EscapeError for a "%" that is not followed by
\* two hexadecimal digits (every mode)
EscapeErr(s) ==
    \E i \in 1..Len(s) :
        /\ s[i] = "%"
        /\ \/ i + 2 > Len(s)
           \/ ~ishex(s[i + 1])
           \/ ~ishex(s[i + 2])

\* net/url unescape(s, encodeHost): the error it reports, if any. An escape
\* below %80 other than %25 and an ASCII byte that shouldEscape are errors
unescapeHostErr(s) ==
    \/ EscapeErr(s)
    \/ \E i \in 1..Len(s) :
          /\ s[i] = "%"
          /\ unhex(s[i + 1]) < 8
          /\ SubSeq(s, i, i + 2) # <<"%", "2", "5">>
    \/ \E i \in 1..Len(s) :
          s[i] # "%" /\ ~IsHighByte(s[i]) /\ ~HostByte(s[i])

\* net/url unescape(s, encodeZone): the error it reports, if any
unescapeZoneErr(s) ==
    \/ EscapeErr(s)
    \/ \E i \in 1..Len(s) :
          /\ s[i] = "%"
          /\ SubSeq(s, i, i + 2) # <<"%", "2", "5">>
          /\ LET v == ByteOf[16 * unhex(s[i + 1]) + unhex(s[i + 2]) + 1]
             IN  v # " " /\ ~HostByte(v)
    \/ \E i \in 1..Len(s) :
          s[i] # "%" /\ ~IsHighByte(s[i]) /\ ~HostByte(s[i])

\* net/url unescape: the bytes of s with every %XX replaced by its byte
RECURSIVE unescape(_)
unescape(s) ==
    IF s = <<>> THEN <<>>
    ELSE IF s[1] = "%"
    THEN <<ByteOf[16 * unhex(s[2]) + unhex(s[3]) + 1]>> \o unescape(From(s, 4))
    ELSE <<s[1]>> \o unescape(Tail(s))

\* strings.Index(s, "%25"), counted from 1; 0: absent
IndexZone(s) ==
    LET At(i) == i + 2 <= Len(s) /\ SubSeq(s, i, i + 2) = <<"%", "2", "5">>
    IN  IF \E i \in 1..Len(s) : At(i)
        THEN CHOOSE i \in 1..Len(s) : At(i) /\ \A j \in 1..(i - 1) : ~At(j)
        ELSE 0

\* net/url validUserinfo
validUserinfo(s) ==
    \A i \in 1..Len(s) :
        \/ IsLetter(s[i]) \/ s[i] \in Digits
        \/ s[i] \in {"-", ".", "_", ":", "~", "!", "$", "&", "'", "(", ")",
                     "*", "+", ",", ";", "=", "%", "@"}

\* net/url parseHost: the error it reports, if any. In an IP literal with a
\* zone ("%25" before the last "]") the zone is unescaped in its own mode
parseHostErr(host) ==
    LET i == LastIndex(host, "]")
        zone == IndexZone(SubSeq(host, 1, i - 1))
    IN  IF HasPrefix(host, <<"[">>)
        THEN \/ i = 0
             \/ ~validOptionalPort(From(host, i + 1))
             \/ IF zone # 0
                THEN \/ unescapeHostErr(SubSeq(host, 1, zone - 1))
                     \/ unescapeZoneErr(SubSeq(host, zone, i - 1))
                     \/ unescapeHostErr(From(host, i))
                ELSE unescapeHostErr(host)
        ELSE \/ /\ LastIndex(host, ":") # 0
                /\ ~validOptionalPort(From(host, LastIndex(host, ":")))
             \/ unescapeHostErr(host)

\* net/url parseAuthority: the host is returned unescaped; the user
\* information must be valid and its name and password must unescape
parseAuthority(authority) ==
    LET i == LastIndex(authority, "@")
        host == IF i = 0 THEN authority ELSE From(authority, i + 1)
    IN  IF parseHostErr(host) THEN [err |-> TRUE, Host |-> <<>>]
        ELSE IF i # 0 /\ ~validUserinfo(SubSeq(authority, 1, i - 1))
        THEN [err |-> TRUE, Host |-> <<>>]
        ELSE IF i # 0 /\ EscapeErr(SubSeq(authority, 1, i - 1))
        THEN [err |-> TRUE, Host |-> <<>>]
        ELSE [err |-> FALSE, Host |-> unescape(host)]

\* net/url parse(u, false), u being the url without its fragment: control
\* bytes are refused, the query is cut off, then the scheme, then the
\* authority between "//" and the next "/"; what is left is the path
parse(u) ==
    LET s == getScheme(u)
        rest == CutBefore(s.rest, "?")
        hasAuthority ==
            /\ HasPrefix(rest, <<"/", "/">>)
            /\ (s.scheme # <<>> \/ ~HasPrefix(rest, <<"/", "/", "/">>))
        authority == CutBefore(From(rest, 3), "/")
        path == IF hasAuthority THEN From(rest, 3 + Len(authority)) ELSE rest
        a == parseAuthority(authority)
    IN  IF \E i \in 1..Len(u) : IsCTLByte(u[i])
        THEN [err |-> TRUE, Host |-> <<>>]
        ELSE IF s.err THEN [err |-> TRUE, Host |-> <<>>]
        ELSE IF ~HasPrefix(rest, <<"/">>) /\ s.scheme # <<>>
        THEN [err |-> FALSE, Host |-> <<>>]
        ELSE IF ~HasPrefix(rest, <<"/">>) /\ Index(CutBefore(rest, "/"), ":") # 0
        THEN [err |-> TRUE, Host |-> <<>>]
        ELSE IF hasAuthority /\ a.err THEN [err |-> TRUE, Host |-> <<>>]
        ELSE IF EscapeErr(path) THEN [err |-> TRUE, Host |-> <<>>]
        ELSE [err |-> FALSE, Host |-> IF hasAuthority THEN a.Host ELSE <<>>]

\* net/url Parse: the fragment is cut off and parsed after the rest
URLParse(rawURL) ==
    LET i == Index(rawURL, "#")
        url == parse(CutBefore(rawURL, "#"))
    IN  IF url.err THEN url
        ELSE IF i # 0 /\ EscapeErr(From(rawURL, i + 1))
        THEN [err |-> TRUE, Host |-> <<>>]
        ELSE url

\* URL.Hostname: the host without a valid port and without brackets
Hostname(host) ==
    LET colon == LastIndex(host, ":")
        h == IF colon # 0 /\ validOptionalPort(From(host, colon))
             THEN SubSeq(host, 1, colon - 1) ELSE host
    IN  IF HasPrefix(h, <<"[">>) /\ Len(h) >= 2 /\ h[Len(h)] = "]"
        THEN SubSeq(h, 2, Len(h) - 1) ELSE h

ToLowerByte(c) ==
    IF \E i \in 1..26 : c = UpperLetters[i]
    THEN LowerLetters[CHOOSE i \in 1..26 : c = UpperLetters[i]]
    ELSE c

\* utf8.DecodeRuneInString: the width of the first rune of s, 0 when the
\* first byte does not start a valid encoding (RuneError, width 1)
RuneLen(s) ==
    LET b(i) == ValOf[s[i]]
        Cont(i, lo, hi) == i <= Len(s) /\ b(i) >= lo /\ b(i) <= hi
    IN  IF b(1) < 128 THEN 1
        ELSE IF b(1) >= 194 /\ b(1) <= 223
        THEN IF Cont(2, 128, 191) THEN 2 ELSE 0
        ELSE IF b(1) >= 224 /\ b(1) <= 239
        THEN IF /\ Cont(2, IF b(1) = 224 THEN 160 ELSE 128,
                          IF b(1) = 237 THEN 159 ELSE 191)
                /\ Cont(3, 128, 191)
             THEN 3 ELSE 0
        ELSE IF b(1) >= 240 /\ b(1) <= 244
        THEN IF /\ Cont(2, IF b(1) = 240 THEN 144 ELSE 128,
                          IF b(1) = 244 THEN 143 ELSE 191)
                /\ Cont(3, 128, 191)
                /\ Cont(4, 128, 191)
             THEN 4 ELSE 0
        ELSE 0

\* the encoding of utf8.RuneError, U+FFFD
RuneError == <<"EF", "BF", "BD">>

\* unicode.CaseRanges, the lower case of every rune above ASCII that has
\* one: <<lo, hi, stride, delta>> stands for the runes lo, lo + stride, ...,
\* hi, whose lower case is the rune plus delta
CaseRanges ==
    <<
    <<192, 214, 1, 32>>, <<216, 222, 1, 32>>, <<256, 302, 2, 1>>,
    <<304, 304, 1, -199>>, <<306, 310, 2, 1>>, <<313, 327, 2, 1>>,
    <<330, 374, 2, 1>>, <<376, 376, 1, -121>>, <<377, 381, 2, 1>>,
    <<385, 385, 1, 210>>, <<386, 388, 2, 1>>, <<390, 390, 1, 206>>,
    <<391, 391, 1, 1>>, <<393, 394, 1, 205>>, <<395, 395, 1, 1>>,
    <<398, 398, 1, 79>>, <<399, 399, 1, 202>>, <<400, 400, 1, 203>>,
    <<401, 401, 1, 1>>, <<403, 403, 1, 205>>, <<404, 404, 1, 207>>,
    <<406, 406, 1, 211>>, <<407, 407, 1, 209>>, <<408, 408, 1, 1>>,
    <<412, 412, 1, 211>>, <<413, 413, 1, 213>>, <<415, 415, 1, 214>>,
    <<416, 420, 2, 1>>, <<422, 422, 1, 218>>, <<423, 423, 1, 1>>,
    <<425, 425, 1, 218>>, <<428, 428, 1, 1>>, <<430, 430, 1, 218>>,
    <<431, 431, 1, 1>>, <<433, 434, 1, 217>>, <<435, 437, 2, 1>>,
    <<439, 439, 1, 219>>, <<440, 440, 1, 1>>, <<444, 444, 1, 1>>,
    <<452, 452, 1, 2>>, <<453, 453, 1, 1>>, <<455, 455, 1, 2>>,
    <<456, 456, 1, 1>>, <<458, 458, 1, 2>>, <<459, 475, 2, 1>>,
    <<478, 494, 2, 1>>, <<497, 497, 1, 2>>, <<498, 500, 2, 1>>,
    <<502, 502, 1, -97>>, <<503, 503, 1, -56>>, <<504, 542, 2, 1>>,
    <<544, 544, 1, -130>>, <<546, 562, 2, 1>>, <<570, 570, 1, 10795>>,
    <<571, 571, 1, 1>>, <<573, 573, 1, -163>>, <<574, 574, 1, 10792>>,
    <<577, 577, 1, 1>>, <<579, 579, 1, -195>>, <<580, 580, 1, 69>>,
    <<581, 581, 1, 71>>, <<582, 590, 2, 1>>, <<880, 882, 2, 1>>,
    <<886, 886, 1, 1>>, <<895, 895, 1, 116>>, <<902, 902, 1, 38>>,
    <<904, 906, 1, 37>>, <<908, 908, 1, 64>>, <<910, 911, 1, 63>>,
    <<913, 929, 1, 32>>, <<931, 939, 1, 32>>, <<975, 975, 1, 8>>,
    <<984, 1006, 2, 1>>, <<1012, 1012, 1, -60>>, <<1015, 1015, 1, 1>>,
    <<1017, 1017, 1, -7>>, <<1018, 1018, 1, 1>>, <<1021, 1023, 1, -130>>,
    <<1024, 1039, 1, 80>>, <<1040, 1071, 1, 32>>, <<1120, 1152, 2, 1>>,
    <<1162, 1214, 2, 1>>, <<1216, 1216, 1, 15>>, <<1217, 1229, 2, 1>>,
    <<1232, 1326, 2, 1>>, <<1329, 1366, 1, 48>>, <<4256, 4293, 1, 7264>>,
    <<4295, 4295, 1, 7264>>, <<4301, 4301, 1, 7264>>,
    <<5024, 5103, 1, 38864>>, <<5104, 5109, 1, 8>>, <<7312, 7354, 1, -3008>>,
    <<7357, 7359, 1, -3008>>, <<7680, 7828, 2, 1>>, <<7838, 7838, 1, -7615>>,
    <<7840, 7934, 2, 1>>, <<7944, 7951, 1, -8>>, <<7960, 7965, 1, -8>>,
    <<7976, 7983, 1, -8>>, <<7992, 7999, 1, -8>>, <<8008, 8013, 1, -8>>,
    <<8025, 8031, 2, -8>>, <<8040, 8047, 1, -8>>, <<8072, 8079, 1, -8>>,
    <<8088, 8095, 1, -8>>, <<8104, 8111, 1, -8>>, <<8120, 8121, 1, -8>>,
    <<8122, 8123, 1, -74>>, <<8124, 8124, 1, -9>>, <<8136, 8139, 1, -86>>,
    <<8140, 8140, 1, -9>>, <<8152, 8153, 1, -8>>, <<8154, 8155, 1, -100>>,
    <<8168, 8169, 1, -8>>, <<8170, 8171, 1, -112>>, <<8172, 8172, 1, -7>>,
    <<8184, 8185, 1, -128>>, <<8186, 8187, 1, -126>>, <<8188, 8188, 1, -9>>,
    <<8486, 8486, 1, -7517>>, <<8490, 8490, 1, -8383>>,
    <<8491, 8491, 1, -8262>>, <<8498, 8498, 1, 28>>, <<8544, 8559, 1, 16>>,
    <<8579, 8579, 1, 1>>, <<9398, 9423, 1, 26>>, <<11264, 11311, 1, 48>>,
    <<11360, 11360, 1, 1>>, <<11362, 11362, 1, -10743>>,
    <<11363, 11363, 1, -3814>>, <<11364, 11364, 1, -10727>>,
    <<11367, 11371, 2, 1>>, <<11373, 11373, 1, -10780>>,
    <<11374, 11374, 1, -10749>>, <<11375, 11375, 1, -10783>>,
    <<11376, 11376, 1, -10782>>, <<11378, 11378, 1, 1>>,
    <<11381, 11381, 1, 1>>, <<11390, 11391, 1, -10815>>,
    <<11392, 11490, 2, 1>>, <<11499, 11501, 2, 1>>, <<11506, 11506, 1, 1>>,
    <<42560, 42604, 2, 1>>, <<42624, 42650, 2, 1>>, <<42786, 42798, 2, 1>>,
    <<42802, 42862, 2, 1>>, <<42873, 42875, 2, 1>>,
    <<42877, 42877, 1, -35332>>, <<42878, 42886, 2, 1>>,
    <<42891, 42891, 1, 1>>, <<42893, 42893, 1, -42280>>,
    <<42896, 42898, 2, 1>>, <<42902, 42920, 2, 1>>,
    <<42922, 42922, 1, -42308>>, <<42923, 42923, 1, -42319>>,
    <<42924, 42924, 1, -42315>>, <<42925, 42925, 1, -42305>>,
    <<42926, 42926, 1, -42308>>, <<42928, 42928, 1, -42258>>,
    <<42929, 42929, 1, -42282>>, <<42930, 42930, 1, -42261>>,
    <<42931, 42931, 1, 928>>, <<42932, 42946, 2, 1>>,
    <<42948, 42948, 1, -48>>, <<42949, 42949, 1, -42307>>,
    <<42950, 42950, 1, -35384>>, <<42951, 42953, 2, 1>>,
    <<42960, 42960, 1, 1>>, <<42966, 42968, 2, 1>>, <<42997, 42997, 1, 1>>,
    <<65313, 65338, 1, 32>>, <<66560, 66599, 1, 40>>,
    <<66736, 66771, 1, 40>>, <<66928, 66938, 1, 39>>,
    <<66940, 66954, 1, 39>>, <<66956, 66962, 1, 39>>,
    <<66964, 66965, 1, 39>>, <<68736, 68786, 1, 64>>,
    <<71840, 71871, 1, 32>>, <<93760, 93791, 1, 32>>,
    <<125184, 125217, 1, 34>>
    >>

\* utf8.DecodeRuneInString: the rune of a valid encoding r
DecodeRune(r) ==
    LET b(i) == ValOf[r[i]]
    IN  IF Len(r) = 1 THEN b(1)
        ELSE IF Len(r) = 2 THEN (b(1) - 192) * 64 + (b(2) - 128)
        ELSE IF Len(r) = 3
        THEN (b(1) - 224) * 4096 + (b(2) - 128) * 64 + (b(3) - 128)
        ELSE (b(1) - 240) * 262144 + (b(2) - 128) * 4096
                 + (b(3) - 128) * 64 + (b(4) - 128)

\* utf8.AppendRune: the encoding of the rune c
EncodeRune(c) ==
    IF c < 128 THEN <<ByteOf[c + 1]>>
    ELSE IF c < 2048
    THEN <<ByteOf[192 + (c \div 64) + 1], ByteOf[128 + (c % 64) + 1]>>
    ELSE IF c < 65536
    THEN <<ByteOf[224 + (c \div 4096) + 1],
           ByteOf[128 + ((c \div 64) % 64) + 1], ByteOf[128 + (c % 64) + 1]>>
    ELSE <<ByteOf[240 + (c \div 262144) + 1],
           ByteOf[128 + ((c \div 4096) % 64) + 1],
           ByteOf[128 + ((c \div 64) % 64) + 1], ByteOf[128 + (c % 64) + 1]>>

\* the rune c is one of the runes of the range cr
InCaseRange(c, cr) ==
    cr[1] <= c /\ c <= cr[2] /\ (c - cr[1]) % cr[3] = 0

\* unicode.ToLower
UnicodeToLower(c) ==
    IF c <= 127 THEN (IF 65 <= c /\ c <= 90 THEN c + 32 ELSE c)
    ELSE IF \E i \in 1..Len(CaseRanges) : InCaseRange(c, CaseRanges[i])
    THEN c + CaseRanges[CHOOSE i \in 1..Len(CaseRanges) :
                            InCaseRange(c, CaseRanges[i])][4]
    ELSE c

\* unicode.ToLower on one encoded rune
LowerRune(r) == EncodeRune(UnicodeToLower(DecodeRune(r)))

\* strings.Map(unicode.ToLower, s): a byte that is not valid UTF-8 becomes
\* U+FFFD
RECURSIVE MapToLower(_)
MapToLower(s) ==
    IF s = <<>> THEN <<>>
    ELSE IF RuneLen(s) = 0 THEN RuneError \o MapToLower(Tail(s))
    ELSE LowerRune(SubSeq(s, 1, RuneLen(s))) \o MapToLower(From(s, RuneLen(s) + 1))

\* strings.ToLower: byte by byte on ASCII, rune by rune otherwise
ToLower(s) ==
    IF \A i \in 1..Len(s) : ~IsHighByte(s[i])
    THEN [i \in 1..Len(s) |-> ToLowerByte(s[i])]
    ELSE MapToLower(s)

\* const youtubeHostnames =
\* "youtube.com;youtu.be;www.youtube.com;www.youtu.be;youtube-nocookie.com;www.youtube-nocookie.com"
youtubeHostnames ==
    <<"y", "o", "u", "t", "u", "b", "e", ".", "c", "o", "m">> \o <<";">> \o
    <<"y", "o", "u", "t", "u", ".", "b", "e">> \o <<";">> \o
    <<"w", "w", "w", ".", "y", "o", "u", "t", "u", "b", "e", ".", "c", "o", "m">> \o <<";">> \o
    <<"w", "w", "w", ".", "y", "o", "u", "t", "u", ".", "b", "e">> \o <<";">> \o
    <<"y", "o", "u", "t", "u", "b", "e", "-", "n", "o", "c", "o", "o", "k", "i", "e", ".", "c", "o", "m">> \o <<";">> \o
    <<"w", "w", "w", ".", "y", "o", "u", "t", "u", "b", "e", "-", "n", "o", "c", "o", "o", "k", "i", "e", ".", "c", "o", "m">>

\* strings.Split(s, sep) for a one byte sep
RECURSIVE Split(_, _)
Split(s, sep) ==
    IF Index(s, sep) = 0 THEN <<s>>
    ELSE <<SubSeq(s, 1, Index(s, sep) - 1)>> \o Split(From(s, Index(s, sep) + 1), sep)

\* a value of the list that ends with needle passes for needle
containsSuffix(haystack, needle) ==
    LET heystackValues == Split(ToLower(haystack), ";")
    IN  \E i \in 1..Len(heystackValues) :
            /\ Len(needle) >= Len(heystackValues[i])
            /\ From(needle, Len(needle) - Len(heystackValues[i]) + 1)
                   = heystackValues[i]

contains(haystack, needle) ==
    LET heystackValues == Split(ToLower(haystack), ";")
    IN  \E i \in 1..Len(heystackValues) : heystackValues[i] = needle

IdentifySource(url) ==
    LET urlObj == URLParse(url)
        hostname == ToLower(Hostname(urlObj.Host))
    IN  IF urlObj.err THEN "Unknown"
        ELSE IF contains(youtubeHostnames, hostname) THEN "YouTube"
        ELSE "Unknown"

Sources == {"YouTube", "Unknown"}

\* sources.IdentifySource on the urls of the requests
SourceOf == [url \in URLs |-> IdentifySource(Bytes(url))]

(***************************************************************************)
(* The extraction tool: what goutubedl.New / yt-dlp can report for a url   *)
(***************************************************************************)
Cats == {1, 2}

\* Info.Formats of an extraction result
Catalog(c) ==
    CASE c = 1 -> << RawById("sb0"), RawById("160"), RawById("137"),
                     RawById("399"), RawById("248"), RawById("139"),
                     RawById("140") >>
      [] c = 2 -> << RawById("18"), RawById("136"), RawById("140") >>

\* source_identifier values a client may send to /api/download
IDs == { Sha256Hex("399"), Sha256Hex("140"), Sha256Hex("248") }

(***************************************************************************)
(* package ytdlp: getRawMediaInfo on a yt-dlp process that started (or     *)
(* not), wrote stderrBytes bytes to stderr, wrote stdout (the JSON record  *)
(* of a catalogue, NullJSON, or 0: not a JSON record) and exited with      *)
(* exit; readErr names the pipe whose io.ReadAll reported an error         *)
(***************************************************************************)
\* stdout is the JSON value null
NullJSON == -1

Subprocesses ==
    { proc \in [started : BOOLEAN, readErr : {"none", "stdout", "stderr"},
                stderrBytes : {0, 1}, exit : {0, 1},
                stdout : {0, NullJSON} \cup Cats] :
        ~proc.started => /\ proc.readErr = "none" /\ proc.stderrBytes = 0
                         /\ proc.exit = 0 /\ proc.stdout = 0 }

NoProc == [started |-> FALSE, readErr |-> "none", stderrBytes |-> 0,
           exit |-> 0, stdout |-> 0]

\* a nil *MediaInfo
NilMediaInfo == 0

\* getRawMediaInfo: (mediaInfo, err), err "ok" for a nil error
getRawMediaInfo(proc) ==
    IF ~proc.started
    THEN [mediaInfo |-> NilMediaInfo, err |-> "failed to run yt-dlp"]
    ELSE IF proc.readErr = "stdout"
    THEN [mediaInfo |-> NilMediaInfo, err |-> "failed to read stdout"]
    ELSE IF proc.readErr = "stderr"
    THEN [mediaInfo |-> NilMediaInfo, err |-> "failed to read stderr"]
    ELSE IF proc.exit # 0
    THEN [mediaInfo |-> NilMediaInfo, err |-> "yt-dlp failed"]
    ELSE IF proc.stderrBytes > 0
    THEN [mediaInfo |-> NilMediaInfo, err |-> "yt-dlp failed"]
    ELSE IF proc.stdout = 0
    THEN [mediaInfo |-> NilMediaInfo, err |-> "failed to parse yt-dlp output"]
    ELSE IF proc.stdout = NullJSON
    THEN [mediaInfo |-> NilMediaInfo, err |-> "ok"]
    ELSE [mediaInfo |-> proc.stdout, err |-> "ok"]

(***************************************************************************)
(* Request goroutines, the cache and its sweep goroutines.                 *)
(*                                                                         *)
(* Time is kept as ages: an entry stored by Set has age 0 and every Tick   *)
(* makes it one unit (30 minutes) older, so time.Since(entry.timestamp) is *)
(* entry.age.  Ages stop growing at MaxAge + 1, the code only asks whether *)
(* an age exceeds maxAge.  A sweep goroutine is the time left of its       *)
(* time.Sleep.                                                             *)
(***************************************************************************)
Procs == {1, 2}

\* c.maxAge: 30 * time.Minute, in clock units of 30 minutes
MaxAge == 1
\* the sweep sleeps c.maxAge * 4
SweepFactor == 4

AgeCap == MaxAge + 1

Min(a, b) == IF a < b THEN a ELSE b

NoResult == [rid |-> 0, cat |-> 0]
NoEntry == [exists |-> FALSE, result |-> NoResult, age |-> 0]
NoSet == [rid |-> 0, age |-> 0]

IdleLoc ==
    [op |-> "none", url |-> "", source |-> "", id |-> "",
     entry |-> NoEntry, sawClean |-> FALSE,
     result |-> NoResult, cached |-> FALSE, path |-> "",
     calls |-> {}, status |-> "",
     formats |-> <<>>, videoFormats |-> <<>>, audioFormats |-> <<>>,
     requested |-> "",
     known |-> {},
     seenRid |-> 0, lateIssue |-> FALSE,
     getDone |-> FALSE, retVal |-> 0, retOk |-> FALSE, retEarly |-> FALSE,
     firstTime |-> FALSE,
     proc |-> NoProc, running |-> FALSE, mediaInfo |-> NilMediaInfo,
     cancelled |-> FALSE]

\* no goroutine is between c.mu.RLock() and c.mu.RUnlock()
NoReaders == \A p \in Procs : pc[p] # "get_rlocked"

\* the extraction tool knows no extractor for the urls of other hosts
ExtractableURLs ==
    { url \in URLs :
        ToLower(Hostname(URLParse(Bytes(url)).Host))
            = <<"w", "w", "w", ".", "y", "o", "u", "t", "u", "b", "e", ".", "c", "o", "m">> }

Extractable(url) == url \in ExtractableURLs

\* media.FetchMedia, switch source (default: unsupported source), with every
\* source sent to the youtube package
FetchDispatchAll(source) == "youtube"

\* media.FetchMedia, switch source (default: unsupported source)
FetchDispatch(source) ==
    IF source = "YouTube" THEN "youtube" ELSE "unsupported"

\* the first index of s that satisfies Test, 0 when there is none
FirstIndex(s, Test(_)) ==
    IF \E i \in 1..Len(s) : Test(s[i])
    THEN CHOOSE i \in 1..Len(s) : Test(s[i]) /\ \A j \in 1..(i - 1) : ~Test(s[j])
    ELSE 0

\* Find format by identifier, falling back on the first format
FindFormatOrFirst(formats, sourceIdentifier) ==
    LET i == FirstIndex(formats, LAMBDA f : ytFormatHash(f) = sourceIdentifier)
    IN  IF i = 0 /\ Len(formats) > 0 THEN 1 ELSE i

\* youtube.DownloadMedia: Find format by identifier
FindFormat(formats, sourceIdentifier) ==
    FirstIndex(formats, LAMBDA f : ytFormatHash(f) = sourceIdentifier)

\* Find general format among the cleaned formats only
FindGeneralFormatCleaned(formats, sourceIdentifier) ==
    FirstIndex(SelectSeq(formats, LAMBDA f : f.VideoBitrate > 0),
               LAMBDA f : f.SourceIdentifier = sourceIdentifier)

\* youtube.DownloadMedia: Find general format
FindGeneralFormat(formats, sourceIdentifier) ==
    FirstIndex(formats, LAMBDA f : f.SourceIdentifier = sourceIdentifier)

\* youtube.FetchMedia after the result is known, then qualityHandler's
\* CleanFormats and SortFormats
FetchTail(l) ==
    [l EXCEPT !.status = "ok",
              !.formats = SortFormats(CleanFormats(getFormats(Catalog(l.result.cat))))]

\* youtube.DownloadMedia after the result is known; dl: result.Download succeeds
DownloadTail(l, dl) ==
    LET formats == Catalog(l.result.cat)
        i == FindFormat(formats, l.id)
        mediaFormats == getFormats(formats)
        g == FindGeneralFormat(mediaFormats, l.id)
    IN  IF i = 0 THEN [l EXCEPT !.status = "format not found"]
        ELSE IF g = 0 THEN [l EXCEPT !.status = "general format not found"]
        ELSE [l EXCEPT !.calls = @ \cup {"result.Download"},
                       !.requested = formats[i].FormatID,
                       !.formats = <<mediaFormats[g]>>,
                       !.status = IF dl THEN "ok"
                                  ELSE "download youtubedl failed"]

Completed(l, dl) ==
    IF l.op = "fetch" THEN FetchTail(l) ELSE DownloadTail(l, dl)

SourceIdentifiers(formats) ==
    { formats[i].SourceIdentifier : i \in 1..Len(formats) }

\* history: the list responses sent so far, by the result they were built from
ListedAfter(l) ==
    IF l.op = "fetch" /\ l.status = "ok"
    THEN listed \cup { [url |-> l.url, rid |-> l.result.rid,
                         ids |-> SourceIdentifiers(l.formats)] }
    ELSE listed

\* Get returns (val, ok)
AfterGet(l, val, ok, path) ==
    [l EXCEPT !.result = val, !.cached = ok, !.path = path,
              !.entry = NoEntry, !.sawClean = FALSE,
              !.getDone = TRUE, !.retVal = val.rid, !.retOk = ok,
              !.retEarly = /\ l.seenRid # 0
                           /\ lastSet[l.url].rid = l.seenRid
                           /\ lastSet[l.url].age < MaxAge]

NoMedia == [Formats |-> <<>>, VideoFormats |-> <<>>, AudioFormats |-> <<>>]

\* no yt-dlp has been started
NoCmd == [todo |-> <<>>, exited |-> TRUE]

PipesIdle ==
    /\ cmd = NoCmd
    /\ stdout = 0 /\ stderr = 0
    /\ stdoutBytes = 0 /\ stderrBytes = 0
    /\ at = "none"

ServiceInit ==
    /\ cache = [u \in URLs |-> NoEntry]
    /\ hasClean = FALSE
    /\ sweepers = <<>>
    /\ nextRid = 1
    /\ pc = [p \in Procs |-> "idle"]
    /\ loc = [p \in Procs |-> IdleLoc]
    /\ listed = {}
    /\ lastSet = [u \in URLs |-> NoSet]
    /\ failed = {}
    /\ unreaped = 0

Init ==
    /\ raw = <<>> /\ impl = "internal" /\ stage = "raw" /\ media = NoMedia
    /\ urlParam = <<>> /\ identified = "none"
    /\ PipesIdle
    /\ ServiceInit

\* media.FetchMedia, switch source: the request l goes on to the provider's
\* FetchMedia (at next) or ends with "unsupported source"
FetchSwitch(p, l, next) ==
    IF FetchDispatch(l.source) = "youtube"
    THEN /\ pc' = [pc EXCEPT ![p] = next]
         /\ loc' = [loc EXCEPT ![p] = l]
    ELSE /\ pc' = [pc EXCEPT ![p] = "done"]
         /\ loc' = [loc EXCEPT ![p] = [l EXCEPT !.status = "unsupported source"]]

\* GET /api/quality: media.FetchMedia (part_004) up to the call of
\* youtube.FetchMedia.  Requests that use the cache arrive while fewer than
\* MaxSweepers sweep goroutines are alive
StartFetch(p) ==
    /\ pc[p] = "idle"
    /\ Len(sweepers) < MaxSweepers
    /\ \E url \in URLs :
         FetchSwitch(p, [IdleLoc EXCEPT !.op = "fetch", !.url = url,
                                       !.source = SourceOf[url],
                                       !.firstTime = (lastSet[url].rid = 0)],
                     "get")
    /\ UNCHANGED <<cache, hasClean, sweepers, nextRid, listed, lastSet, failed>>
    /\ UNCHANGED <<fvars, uvars, pvars, unreaped>>

\* GET /api/quality: media.FetchMedia (part_001) up to the call of
\* ytdlp.GetAvailableFormats
StartFetchYtdlp(p) ==
    /\ pc[p] = "idle"
    /\ \E url \in URLs :
         FetchSwitch(p, [IdleLoc EXCEPT !.op = "fetchYtdlp", !.url = url,
                                       !.source = SourceOf[url]],
                     "ytdlp")
    /\ UNCHANGED <<cache, hasClean, sweepers, nextRid, listed, lastSet, failed>>
    /\ UNCHANGED <<fvars, uvars, pvars, unreaped>>

\* GET /api/download: media.DownloadMedia up to the call of
\* youtube.DownloadMedia; the switch is on the source parameter
StartDownload(p) ==
    /\ pc[p] = "idle"
    /\ Len(sweepers) < MaxSweepers
    /\ \E url \in URLs, source \in Sources, id \in IDs :
         LET l == [IdleLoc EXCEPT !.op = "download", !.url = url,
                                  !.source = source, !.id = id,
                                  !.known = listed]
         IN  IF source = "YouTube"
             THEN /\ pc' = [pc EXCEPT ![p] = "get"]
                  /\ loc' = [loc EXCEPT ![p] = l]
             ELSE /\ pc' = [pc EXCEPT ![p] = "done"]
                  /\ loc' = [loc EXCEPT ![p] =
                                [l EXCEPT !.status = "unsupported source"]]
    /\ UNCHANGED <<cache, hasClean, sweepers, nextRid, listed, lastSet, failed>>
    /\ UNCHANGED <<fvars, uvars, pvars, unreaped>>

\* Get: c.mu.RLock(); entry, exists := c.cache[url]; if !c.hasClean
GetRLock(p) ==
    /\ pc[p] = "get"
    /\ LET l == loc[p]
       IN  loc' = [loc EXCEPT ![p] =
                      [l EXCEPT !.entry = cache[l.url],
                                !.sawClean = hasClean,
                                !.calls = @ \cup {"cache.Get"},
                                !.seenRid = lastSet[l.url].rid,
                                !.lateIssue = /\ lastSet[l.url].rid # 0
                                              /\ lastSet[l.url].age > MaxAge]]
    /\ pc' = [pc EXCEPT ![p] = "get_rlocked"]
    /\ UNCHANGED <<cache, hasClean, sweepers, nextRid, listed, lastSet, failed>>
    /\ UNCHANGED <<fvars, uvars, pvars, unreaped>>

\* Get: { c.startCleaning(); c.hasClean = true }; c.mu.RUnlock()
GetStartCleaning(p) ==
    /\ pc[p] = "get_rlocked"
    /\ IF ~loc[p].sawClean
       THEN /\ sweepers' = Append(sweepers, SweepFactor * MaxAge)
            /\ hasClean' = TRUE
       ELSE UNCHANGED <<sweepers, hasClean>>
    /\ pc' = [pc EXCEPT ![p] = "get_check"]
    /\ UNCHANGED <<cache, nextRid, loc, listed, lastSet, failed>>
    /\ UNCHANGED <<fvars, uvars, pvars, unreaped>>

\* Get: the checks after RUnlock.  On a hit youtube.FetchMedia runs to the
\* handler's response (no lock, wait or call-out is left); a download goes on
\* to look up its format and to result.Download, which blocks
GetCheck(p) ==
    /\ pc[p] = "get_check"
    /\ LET l == loc[p]
       IN  IF ~l.entry.exists
           THEN /\ pc' = [pc EXCEPT ![p] = "extract"]
                /\ loc' = [loc EXCEPT ![p] = AfterGet(l, NoResult, FALSE, "miss")]
                /\ UNCHANGED listed
           ELSE IF l.entry.age > MaxAge
           THEN /\ pc' = [pc EXCEPT ![p] = "get_delete"]
                /\ UNCHANGED <<loc, listed>>
           ELSE IF l.op = "download"
           THEN /\ pc' = [pc EXCEPT ![p] = "return"]
                /\ loc' = [loc EXCEPT ![p] =
                              AfterGet(l, l.entry.result, TRUE, "hit")]
                /\ UNCHANGED listed
           ELSE LET l2 == FetchTail(AfterGet(l, l.entry.result, TRUE, "hit"))
                IN  /\ pc' = [pc EXCEPT ![p] = "done"]
                    /\ loc' = [loc EXCEPT ![p] = l2]
                    /\ listed' = ListedAfter(l2)
    /\ UNCHANGED <<cache, hasClean, sweepers, nextRid, lastSet, failed>>
    /\ UNCHANGED <<fvars, uvars, pvars, unreaped>>

\* Get: c.mu.Lock(); delete(c.cache, url); c.mu.Unlock(); return nil, false
GetDelete(p) ==
    /\ pc[p] = "get_delete"
    /\ NoReaders
    /\ cache' = [cache EXCEPT ![loc[p].url] = NoEntry]
    /\ loc' = [loc EXCEPT ![p] = AfterGet(loc[p], NoResult, FALSE, "stale")]
    /\ pc' = [pc EXCEPT ![p] = "extract"]
    /\ UNCHANGED <<hasClean, sweepers, nextRid, listed, lastSet, failed>>
    /\ UNCHANGED <<fvars, uvars, pvars, unreaped>>

\* goutubedl.New fails and the failed attempt is stored for the url
ExtractFailStored(p) ==
    /\ pc[p] = "extract"
    /\ loc' = [loc EXCEPT ![p] =
                  [loc[p] EXCEPT !.calls = @ \cup {"goutubedl.New"},
                                 !.status = "new youtubedl failed"]]
    /\ cache' = [cache EXCEPT ![loc[p].url] =
                    [exists |-> TRUE, result |-> NoResult, age |-> 0]]
    /\ failed' = failed \cup {loc[p].url}
    /\ pc' = [pc EXCEPT ![p] = "done"]
    /\ UNCHANGED <<hasClean, sweepers, nextRid, listed, lastSet>>
    /\ UNCHANGED <<fvars, uvars, pvars, unreaped>>

\* goutubedl.New(ctx, url, goutubedl.Options{}) fails
ExtractFail(p) ==
    /\ pc[p] = "extract"
    /\ loc' = [loc EXCEPT ![p] =
                  [loc[p] EXCEPT !.calls = @ \cup {"goutubedl.New"},
                                 !.status = "new youtubedl failed"]]
    /\ failed' = failed \cup {loc[p].url}
    /\ pc' = [pc EXCEPT ![p] = "done"]
    /\ UNCHANGED <<cache, hasClean, sweepers, nextRid, listed, lastSet>>
    /\ UNCHANGED <<fvars, uvars, pvars, unreaped>>

\* goutubedl.New(ctx, url, goutubedl.Options{}) returns a result
Extract(p) ==
    /\ pc[p] = "extract"
    /\ Extractable(loc[p].url)
    /\ nextRid <= MaxExtract
    /\ \E c \in Cats :
         loc' = [loc EXCEPT ![p] =
                    [loc[p] EXCEPT !.calls = @ \cup {"goutubedl.New"},
                                   !.result = [rid |-> nextRid, cat |-> c]]]
    /\ nextRid' = nextRid + 1
    /\ pc' = [pc EXCEPT ![p] = "set"]
    /\ UNCHANGED <<cache, hasClean, sweepers, listed, lastSet, failed>>
    /\ UNCHANGED <<fvars, uvars, pvars, unreaped>>

\* cache.Set(url, result) with the zero time.Time for timestamp
SetZeroTime(p) ==
    /\ pc[p] = "set"
    /\ NoReaders
    /\ LET l == [loc[p] EXCEPT !.calls = @ \cup {"cache.Set"}]
       IN  /\ cache' = [cache EXCEPT ![l.url] =
                           [exists |-> TRUE, result |-> l.result, age |-> AgeCap]]
           /\ lastSet' = [lastSet EXCEPT ![l.url] = [rid |-> l.result.rid, age |-> 0]]
           /\ failed' = failed \ {l.url}
           /\ loc' = [loc EXCEPT ![p] = l]
    /\ pc' = [pc EXCEPT ![p] = "return"]
    /\ UNCHANGED <<hasClean, sweepers, nextRid, listed>>
    /\ UNCHANGED <<fvars, uvars, pvars, unreaped>>

\* cache.Set(url, result): c.mu.Lock() to the deferred c.mu.Unlock()
Set(p) ==
    /\ pc[p] = "set"
    /\ NoReaders
    /\ LET l == [loc[p] EXCEPT !.calls = @ \cup {"cache.Set"}]
       IN  /\ cache' = [cache EXCEPT ![l.url] =
                           [exists |-> TRUE, result |-> l.result, age |-> 0]]
           /\ lastSet' = [lastSet EXCEPT ![l.url] = [rid |-> l.result.rid, age |-> 0]]
           /\ failed' = failed \ {l.url}
           /\ loc' = [loc EXCEPT ![p] = l]
    /\ pc' = [pc EXCEPT ![p] = "return"]
    /\ UNCHANGED <<hasClean, sweepers, nextRid, listed>>
    /\ UNCHANGED <<fvars, uvars, pvars, unreaped>>

\* the caller of the cache runs to its return with the result it holds:
\* youtube.FetchMedia after cache.Set, youtube.DownloadMedia after cache.Get
\* or cache.Set (the lookups, then result.Download, which blocks until
\* yt-dlp has started the stream or failed), then the handler's response
Return(p) ==
    /\ pc[p] = "return"
    /\ \E dl \in BOOLEAN :
         LET l2 == Completed(loc[p], dl)
         IN  /\ loc' = [loc EXCEPT ![p] = l2]
             /\ listed' = ListedAfter(l2)
    /\ pc' = [pc EXCEPT ![p] = "done"]
    /\ UNCHANGED <<cache, hasClean, sweepers, nextRid, lastSet, failed>>
    /\ UNCHANGED <<fvars, uvars, pvars, unreaped>>

\* ytdlp.GetAvailableFormats after getRawMediaInfo returned, then
\* qualityHandler's CleanFormats and SortFormats.  mediaInfo.Title on a nil
\* mediaInfo is a nil pointer dereference: the handler goroutine panics.
\* wait() is what reaps the process: after a read error it is not called
YtdlpTail(l) ==
    LET r == getRawMediaInfo(l.proc)
        l2 == [l EXCEPT !.running = l.running /\ l.proc.readErr # "none",
                        !.status = r.err,
                        !.mediaInfo = r.mediaInfo]
    IN  IF r.err = "ok" /\ r.mediaInfo = NilMediaInfo
        THEN [l2 EXCEPT !.status = "panic"]
        ELSE IF r.err = "ok"
        THEN [l2 EXCEPT
                !.videoFormats =
                    BackendSortVideo(BackendCleanVideo(
                        getVideoFormats(Catalog(r.mediaInfo)))),
                !.audioFormats =
                    BackendSortAudio(BackendCleanAudio(
                        getAudioFormats(Catalog(r.mediaInfo))))]
        ELSE l2

\* the requests in flight whose pipe read is going to fail
Failing ==
    Cardinality({ q \in Procs : /\ pc[q] \in {"ytdlp_stdout", "ytdlp_stderr"}
                                /\ loc[q].proc.readErr # "none" })

\* getRawMediaInfo: run("yt-dlp", ...); when cmd.Start fails the call returns.
\* A pipe read fails for at most MaxUnreaped requests
YtdlpStart(p) ==
    /\ pc[p] = "ytdlp"
    /\ \E proc \in Subprocesses :
         /\ proc.readErr # "none" => unreaped + Failing < MaxUnreaped
         /\ LET l == [loc[p] EXCEPT !.calls = @ \cup {"ytdlp.run"}, !.proc = proc]
            IN  IF proc.started
                THEN /\ loc' = [loc EXCEPT ![p] = [l EXCEPT !.running = TRUE]]
                     /\ pc' = [pc EXCEPT ![p] = "ytdlp_stdout"]
                ELSE /\ loc' = [loc EXCEPT ![p] = YtdlpTail(l)]
                     /\ pc' = [pc EXCEPT ![p] = "done"]
    /\ UNCHANGED <<cache, hasClean, sweepers, nextRid, listed, lastSet, failed>>
    /\ UNCHANGED <<fvars, uvars, pvars, unreaped>>

\* getRawMediaInfo: io.ReadAll(stdout) returns, at end-of-file or with an
\* error; on an error getRawMediaInfo returns without wait() and the process
\* it started is left behind
YtdlpReadStdout(p) ==
    /\ pc[p] = "ytdlp_stdout"
    /\ IF loc[p].proc.readErr = "stdout"
       THEN /\ loc' = [loc EXCEPT ![p] = YtdlpTail(loc[p])]
            /\ pc' = [pc EXCEPT ![p] = "done"]
            /\ unreaped' = unreaped + 1
       ELSE /\ pc' = [pc EXCEPT ![p] = "ytdlp_stderr"]
            /\ UNCHANGED <<loc, unreaped>>
    /\ UNCHANGED <<cache, hasClean, sweepers, nextRid, listed, lastSet, failed>>
    /\ UNCHANGED <<fvars, uvars, pvars>>

\* getRawMediaInfo: io.ReadAll(stderr) returns
YtdlpReadStderr(p) ==
    /\ pc[p] = "ytdlp_stderr"
    /\ IF loc[p].proc.readErr = "stderr"
       THEN /\ loc' = [loc EXCEPT ![p] = YtdlpTail(loc[p])]
            /\ pc' = [pc EXCEPT ![p] = "done"]
            /\ unreaped' = unreaped + 1
       ELSE /\ pc' = [pc EXCEPT ![p] = "ytdlp_wait"]
            /\ UNCHANGED <<loc, unreaped>>
    /\ UNCHANGED <<cache, hasClean, sweepers, nextRid, listed, lastSet, failed>>
    /\ UNCHANGED <<fvars, uvars, pvars>>

\* getRawMediaInfo: wait() returns, the yt-dlp process has exited;
\* getRawMediaInfo and GetAvailableFormats run to their return
YtdlpWait(p) ==
    /\ pc[p] = "ytdlp_wait"
    /\ loc' = [loc EXCEPT ![p] = YtdlpTail(loc[p])]
    /\ pc' = [pc EXCEPT ![p] = "done"]
    /\ UNCHANGED <<cache, hasClean, sweepers, nextRid, listed, lastSet, failed>>
    /\ UNCHANGED <<fvars, uvars, pvars, unreaped>>

\* the client goes away while yt-dlp runs: r.Context() is cancelled.  ctx is
\* not handed to GetAvailableFormats, no step of the goroutine reads it
Cancel(p) ==
    /\ pc[p] \in {"ytdlp_stdout", "ytdlp_stderr", "ytdlp_wait"}
    /\ ~loc[p].cancelled
    /\ loc' = [loc EXCEPT ![p] = [loc[p] EXCEPT !.cancelled = TRUE]]
    /\ UNCHANGED <<cache, hasClean, sweepers, nextRid, pc, listed, lastSet, failed>>
    /\ UNCHANGED <<fvars, uvars, pvars, unreaped>>

\* qualityHandler: the status of its response to what media.FetchMedia
\* returned (err "ok": a nil error)
qualityHandlerStatus(err) == IF err # "ok" THEN 500 ELSE 200

\* downloadHandler: the status of its response to what media.DownloadMedia
\* returned
downloadHandlerStatus(err) == IF err # "ok" THEN 500 ELSE 200

\* no response is written
NoResponse == 0

\* the status the handler of request l answers with; net/http recovers a
\* panic of the handler and closes the connection without a response
ResponseStatus(l) ==
    IF l.status = "panic" THEN NoResponse
    ELSE IF l.op = "download" THEN downloadHandlerStatus(l.status)
    ELSE qualityHandlerStatus(l.status)

\* the handler has written its response and returns; a process the request
\* left behind stays in unreaped
Done(p) ==
    /\ pc[p] = "done"
    /\ pc' = [pc EXCEPT ![p] = "idle"]
    /\ loc' = [loc EXCEPT ![p] = IdleLoc]
    /\ UNCHANGED <<cache, hasClean, sweepers, nextRid, listed, lastSet, failed>>
    /\ UNCHANGED <<fvars, uvars, pvars, unreaped>>

\* a sweep pass that removes the entries of age maxAge as well
SweptFromMaxAge(entries) ==
    [u \in URLs |->
        IF entries[u].exists /\ entries[u].age >= MaxAge
        THEN NoEntry ELSE entries[u]]

\* the entries a sweep pass leaves in the map
Swept(entries) ==
    [u \in URLs |->
        IF entries[u].exists /\ entries[u].age > MaxAge
        THEN NoEntry ELSE entries[u]]

RemoveAt(s, i) == SubSeq(s, 1, i - 1) \o SubSeq(s, i + 1, Len(s))

\* one pass of a startCleaning goroutine whose Sleep is over
SweepPass ==
    /\ \E i \in 1..Len(sweepers) :
         /\ sweepers[i] = 0
         /\ NoReaders
         /\ LET kept == Swept(cache)
                nonEmpty == \E u \in URLs : kept[u].exists
                rest == RemoveAt(sweepers, i)
            IN  /\ cache' = kept
                /\ hasClean' = nonEmpty
                /\ sweepers' = IF nonEmpty
                               THEN Append(rest, SweepFactor * MaxAge)
                               ELSE rest
    /\ UNCHANGED <<nextRid, pc, loc, listed, lastSet, failed>>
    /\ UNCHANGED <<fvars, uvars, pvars, unreaped>>

Older(age) == Min(age + 1, AgeCap)

\* 30 minutes pass
Tick ==
    /\ cache' = [u \in URLs |->
                    IF cache[u].exists
                    THEN [cache[u] EXCEPT !.age = Older(@)] ELSE cache[u]]
    /\ lastSet' = [u \in URLs |->
                      IF lastSet[u].rid # 0
                      THEN [lastSet[u] EXCEPT !.age = Older(@)] ELSE lastSet[u]]
    /\ loc' = [p \in Procs |->
                  IF loc[p].entry.exists
                  THEN [loc[p] EXCEPT !.entry.age = Older(@)] ELSE loc[p]]
    /\ sweepers' = [i \in 1..Len(sweepers) |-> Max(sweepers[i] - 1, 0)]
    /\ UNCHANGED <<hasClean, nextRid, pc, listed, failed>>
    /\ UNCHANGED <<fvars, uvars, pvars, unreaped>>

\* Spec: the request goroutines list formats concurrently while time passes
\* and the sweep goroutines run
Next ==
    \/ \E p \in Procs : StartFetch(p)
    \/ \E p \in Procs : GetRLock(p)
    \/ \E p \in Procs : GetStartCleaning(p)
    \/ \E p \in Procs : GetCheck(p)
    \/ \E p \in Procs : GetDelete(p)
    \/ \E p \in Procs : ExtractFail(p)
    \/ \E p \in Procs : Extract(p)
    \/ \E p \in Procs : Set(p)
    \/ \E p \in Procs : Return(p)
    \/ \E p \in Procs : Done(p)
    \/ SweepPass
    \/ Tick

Spec == Init /\ [][Next]_vars

\* SpecDownloads: the two handlers Initialize registers, served concurrently
\* within one clock unit: no entry ages and no sweep goroutine wakes
NextDownloads ==
    \/ \E p \in Procs : StartFetch(p)
    \/ \E p \in Procs : StartDownload(p)
    \/ \E p \in Procs : GetRLock(p)
    \/ \E p \in Procs : GetStartCleaning(p)
    \/ \E p \in Procs : GetCheck(p)
    \/ \E p \in Procs : ExtractFail(p)
    \/ \E p \in Procs : Extract(p)
    \/ \E p \in Procs : Set(p)
    \/ \E p \in Procs : Return(p)
    \/ \E p \in Procs : Done(p)

SpecDownloads == Init /\ [][NextDownloads]_vars

\* SpecPair: each request goroutine serves one GET /api/quality, so at most
\* two calls of youtube.FetchMedia run, in every interleaving with each other,
\* with the sweep goroutines and with the clock
NextPair ==
    \/ \E p \in Procs : StartFetch(p)
    \/ \E p \in Procs : GetRLock(p)
    \/ \E p \in Procs : GetStartCleaning(p)
    \/ \E p \in Procs : GetCheck(p)
    \/ \E p \in Procs : GetDelete(p)
    \/ \E p \in Procs : ExtractFail(p)
    \/ \E p \in Procs : Extract(p)
    \/ \E p \in Procs : Set(p)
    \/ \E p \in Procs : Return(p)
    \/ SweepPass
    \/ Tick

\* the step of goroutine p that GetCheck(p) takes: GetCheck(p) is the only
\* action that moves p from "get_check", and it is enabled whenever p is there
GetReturns(p) ==
    /\ pc[p] = "get_check"
    /\ \E to \in {"extract", "get_delete", "return", "done"} :
           pc' = [pc EXCEPT ![p] = to]

\* the step of goroutine p that Return(p) takes: Return(p) is the only action
\* that moves p from "return", and it is enabled whenever p is there
Returns(p) == pc[p] = "return" /\ pc' = [pc EXCEPT ![p] = "done"]

\* The Go scheduler runs every goroutine that can run, so a step of Get or of
\* the caller that waits for nothing is taken (weak fairness).  A goroutine
\* blocked in c.mu.Lock() gets the lock once the readers that hold it have
\* called RUnlock: a blocked Lock keeps new readers out (sync.RWMutex), so
\* readers that come and go cannot overtake it for ever (strong fairness).
\* Nothing is assumed of goutubedl.New, of the arrival of requests, of the
\* sweep goroutines or of the clock.
Scheduling ==
    \A p \in Procs :
        /\ WF_vars(GetRLock(p))
        /\ WF_vars(GetStartCleaning(p))
        /\ WF_pc(GetReturns(p))
        /\ SF_vars(GetDelete(p))
        /\ SF_vars(Set(p))
        /\ WF_pc(Returns(p))

SpecPair == Init /\ [][NextPair]_vars /\ Scheduling

\* SpecService: every operation of the service, one request at a time
ServiceProcs == {1}

NextService ==
    \/ \E p \in ServiceProcs : StartFetch(p)
    \/ \E p \in ServiceProcs : StartFetchYtdlp(p)
    \/ \E p \in ServiceProcs : StartDownload(p)
    \/ \E p \in ServiceProcs : GetRLock(p)
    \/ \E p \in ServiceProcs : GetStartCleaning(p)
    \/ \E p \in ServiceProcs : GetCheck(p)
    \/ \E p \in ServiceProcs : GetDelete(p)
    \/ \E p \in ServiceProcs : ExtractFail(p)
    \/ \E p \in ServiceProcs : Extract(p)
    \/ \E p \in ServiceProcs : Set(p)
    \/ \E p \in ServiceProcs : Return(p)
    \/ \E p \in ServiceProcs : YtdlpStart(p)
    \/ \E p \in ServiceProcs : YtdlpReadStdout(p)
    \/ \E p \in ServiceProcs : YtdlpReadStderr(p)
    \/ \E p \in ServiceProcs : YtdlpWait(p)
    \/ \E p \in ServiceProcs : Cancel(p)
    \/ \E p \in ServiceProcs : Done(p)
    \/ SweepPass
    \/ Tick

SpecService == Init /\ [][NextService]_vars

\* SpecCancel: the request goroutines list formats through yt-dlp (the
\* media.FetchMedia of part_001) and clients go away.  A goroutine that can
\* take a step of the program takes it; nothing makes a client send a
\* request or go away, and nothing makes a running yt-dlp process exit.
NextCancel ==
    \/ \E p \in Procs : StartFetchYtdlp(p)
    \/ \E p \in Procs : YtdlpStart(p)
    \/ \E p \in Procs : YtdlpReadStdout(p)
    \/ \E p \in Procs : YtdlpReadStderr(p)
    \/ \E p \in Procs : YtdlpWait(p)
    \/ \E p \in Procs : Cancel(p)
    \/ \E p \in Procs : Done(p)

Fairness == \A p \in Procs : WF_vars(YtdlpStart(p) \/ Done(p))

SpecCancel == Init /\ [][NextCancel]_vars /\ Fairness

(***************************************************************************)
(* SpecFormats: the pipeline applied to every bounded input                *)
(***************************************************************************)
InitFormats ==
    /\ raw \in { s \in RawSeqs(MaxLen) : Distinct(s) }
    /\ impl \in {"internal", "backend"}
    /\ stage = "raw"
    /\ media = NoMedia
    /\ urlParam = <<>> /\ identified = "none"
    /\ PipesIdle
    /\ ServiceInit

\* YouTubeMedia.GetMedia: Formats: getFormats(m.Formats)
GetMedia ==
    /\ impl = "internal" /\ stage = "raw"
    /\ media' = [media EXCEPT !.Formats = getFormats(raw)]
    /\ stage' = "got"
    /\ UNCHANGED <<raw, impl>>
    /\ UNCHANGED <<svars, uvars, pvars>>

\* ytdlp.GetAvailableFormats
GetAvailableFormats ==
    /\ impl = "backend" /\ stage = "raw"
    /\ media' = [media EXCEPT !.VideoFormats = getVideoFormats(raw),
                              !.AudioFormats = getAudioFormats(raw)]
    /\ stage' = "got"
    /\ UNCHANGED <<raw, impl>>
    /\ UNCHANGED <<svars, uvars, pvars>>

MediaCleanFormats ==
    /\ impl = "internal" /\ stage = "got"
    /\ media' = [media EXCEPT !.Formats = CleanFormats(@)]
    /\ stage' = "cleaned"
    /\ UNCHANGED <<raw, impl>>
    /\ UNCHANGED <<svars, uvars, pvars>>

BackendMediaCleanFormats ==
    /\ impl = "backend" /\ stage = "got"
    /\ media' = [media EXCEPT !.VideoFormats = BackendCleanVideo(@),
                              !.AudioFormats = BackendCleanAudio(@)]
    /\ stage' = "cleaned"
    /\ UNCHANGED <<raw, impl>>
    /\ UNCHANGED <<svars, uvars, pvars>>

MediaSortFormats ==
    /\ impl = "internal" /\ stage = "cleaned"
    /\ media' = [media EXCEPT !.Formats = SortFormats(@)]
    /\ stage' = "sorted"
    /\ UNCHANGED <<raw, impl>>
    /\ UNCHANGED <<svars, uvars, pvars>>

BackendMediaSortFormats ==
    /\ impl = "backend" /\ stage = "cleaned"
    /\ media' = [media EXCEPT !.VideoFormats = BackendSortVideo(@),
                              !.AudioFormats = BackendSortAudio(@)]
    /\ stage' = "sorted"
    /\ UNCHANGED <<raw, impl>>
    /\ UNCHANGED <<svars, uvars, pvars>>

NextFormats ==
    \/ GetMedia
    \/ GetAvailableFormats
    \/ MediaCleanFormats
    \/ BackendMediaCleanFormats
    \/ MediaSortFormats
    \/ BackendMediaSortFormats

SpecFormats == InitFormats /\ [][NextFormats]_vars

(***************************************************************************)
(* SpecSources: IdentifySource applied to every bounded url                *)
(***************************************************************************)
\* the urls are written prefix, host, port, tail
Prefixes ==
    { <<>>,
      <<"h", "t", "t", "p", "s", ":", "/", "/">>,
      <<"H", "T", "T", "P", "S", ":", "/", "/">>,
      <<"/", "/">>,
      <<"h", "t", "t", "p", "s", ":">>,
      <<":">>,
      <<"h", "t", "t", "p", "s", ":", "/", "/", "u", "s", "e", "r", "@">>,
      <<"h", "t", "t", "p", "s", ":", "/", "/", "y", "o", "u", "t", "u", "b", "e", ".", "c", "o", "m", "@">>,
      <<"h", "t", "t", "p", "s", ":", "/", "/", "u", "s", "%", "z", "z", "e", "r", "@">>,
      <<"h", "t", "t", "p", "s", ":", "/", "/", "u", "%", "4", "0", ":", "p", "@">>,
      <<"/">> }

\* the hostnames of youtubeHostnames, as written there and in other cases
ListedHosts ==
    { <<"y", "o", "u", "t", "u", "b", "e", ".", "c", "o", "m">>,
      <<"y", "o", "u", "t", "u", ".", "b", "e">>,
      <<"w", "w", "w", ".", "y", "o", "u", "t", "u", "b", "e", ".", "c", "o", "m">>,
      <<"w", "w", "w", ".", "y", "o", "u", "t", "u", ".", "b", "e">>,
      <<"y", "o", "u", "t", "u", "b", "e", "-", "n", "o", "c", "o", "o", "k", "i", "e", ".", "c", "o", "m">>,
      <<"w", "w", "w", ".", "y", "o", "u", "t", "u", "b", "e", "-", "n", "o", "c", "o", "o", "k", "i", "e", ".", "c", "o", "m">> }

\* with letters of other cases, also written as escapes: U+212A (Kelvin
\* sign) and U+0130, whose lower cases are "k" and "i"
CasedHosts ==
    { <<"Y", "o", "u", "T", "u", "b", "e", ".", "c", "o", "m">>,
      <<"y", "o", "u", "t", "u", "b", "e", "-", "n", "o", "c", "o", "o", "%", "E", "2", "%", "8", "4", "%", "a", "a", "i", "e", ".", "c", "o", "m">>,
      <<"y", "o", "u", "t", "u", "b", "e", "-", "n", "o", "c", "o", "o", "k", "C4", "B0", "e", ".", "c", "o", "m">>,
      <<"W", "W", "W", ".", "Y", "O", "U", "T", "U", ".", "B", "E">>,
      <<"Y", "o", "u", "t", "u", "b", "e", "-", "N", "o", "C", "o", "o", "k", "i", "e", ".", "c", "o", "m">> }

\* unlisted subdomains, names that end or begin with a listed name, the
\* empty name, names url.Parse rejects, names with letters outside ASCII
UnlistedHosts ==
    { <<"m", ".", "y", "o", "u", "t", "u", "b", "e", ".", "c", "o", "m">>,
      <<"m", "u", "s", "i", "c", ".", "y", "o", "u", "t", "u", "b", "e", ".", "c", "o", "m">>,
      <<"n", "o", "t", "y", "o", "u", "t", "u", "b", "e", ".", "c", "o", "m">>,
      <<"y", "o", "u", "t", "u", "b", "e", ".", "c", "o", "m", ".", "e", "v", "i", "l", ".", "i", "o">>,
      <<"y", "o", "u", "t", "u", "b", "e", ".", "c", "o", "m", ".">>,
      <<"y", "o", "u", "t", "u", "b", "e", ".", "c", "o">>,
      <<"e", "x", "a", "m", "p", "l", "e", ".", "c", "o", "m">>,
      <<>>,
      <<"y", "o", "u", " ", "t", "u", "b", "e", ".", "c", "o", "m">>,
      <<"[", ":", ":", "1", "]">>,
      <<"[", ":", ":", "1">>,
      <<"[", "f", "e", "8", "0", ":", ":", "1", "%", "2", "5", "e", "n", "%", "4", "1", "]">>,
      <<"[", "f", "e", "8", "0", ":", ":", "1", "%", "2", "5", "%", "2", "F", "]">>,
      <<"y", "o", "u", "\"", "t", "u", "b", "e", ".", "c", "o", "m">>,
      <<"%", "E", "4", "%", "B", "D", "%", "A", "0", ".", "c", "o", "m">>,
      <<"y", "o", "u", "t", "u", "b", "e", "%", "2", "5", ".", "c", "o", "m">>,
      <<"y", "o", "u", "t", "u", "b", "e", "%", "2", "E", "c", "o", "m">>,
      <<"y", "o", "u", "t", "u", "%", "C", "3", "%", "8", "4", ".", "b", "e">>,
      <<"y", "o", "u", "t", "u", "b", "e", "80", ".", "c", "o", "m">>,
      <<"C4", "80", "A", ".", "c", "o", "m">>,
      <<"y", "o", "u", "t", "u", "E1", "BA", "9E", ".", "b", "e">>,
      <<"y", "o", "u", "t", "u", "b", "e", ".", "c", "o", "m", "F0", "90", "90", "80">>,
      <<"y", "o", "u", "t", "u", "b", "e", ".", "c", "o", "m", ";", "y", "o", "u", "t", "u", ".", "b", "e">> }

Ports ==
    { <<>>,
      <<":", "4", "4", "3">>,
      <<":", "x">>,
      <<":">> }

Tails ==
    { <<>>,
      <<"/", "w", "a", "t", "c", "h", "?", "v", "=", "a">>,
      <<"/", "c", "/", "@", "y", "o", "u", "t", "u", "b", "e", ".", "c", "o", "m">>,
      <<"?", "u", "=", "h", "t", "t", "p", "s", ":", "/", "/", "y", "o", "u", "t", "u", "b", "e", ".", "c", "o", "m", "/">>,
      <<"#", "y", "o", "u", "t", "u", "b", "e", ".", "c", "o", "m">>,
      <<"/", "%", "z", "z">>,
      <<"/", "w", "a", "t", "c", "h", "%">>,
      <<"/", "w", "%", "4", "1", "?", "q", "=", "%", "z", "z">>,
      <<"/", "#", "%", "z", "z">>,
      <<"/", "#", "a", "09", "%", "4", "1">>,
      <<"/", "a", "09", "b">> }

URLInputs ==
    { p \o h \o q \o t : p \in Prefixes,
                          h \in ListedHosts \cup CasedHosts \cup UnlistedHosts,
                          q \in Ports, t \in Tails }

InitSources ==
    /\ urlParam \in URLInputs
    /\ identified = "none"
    /\ raw = <<>> /\ impl = "internal" /\ stage = "raw" /\ media = NoMedia
    /\ PipesIdle
    /\ ServiceInit

\* source := sources.IdentifySource(url)
Identify ==
    /\ identified = "none"
    /\ identified' = IdentifySource(urlParam)
    /\ UNCHANGED urlParam
    /\ UNCHANGED <<fvars, svars, pvars>>

NextSources == Identify

SpecSources == InitSources /\ [][NextSources]_vars

(***************************************************************************)
(* ytdlp.run and the reads of getRawMediaInfo (SpecPipes)                  *)
(***************************************************************************)
\* the ends yt-dlp writes to
Streams == {"stdout", "stderr"}

RECURSIVE Outputs(_)
\* what yt-dlp may write before it exits: every order of n chunks
Outputs(n) ==
    IF n = 0 THEN { <<>> }
    ELSE { <<w>> \o s : w \in Streams, s \in Outputs(n - 1) }

\* run returned without error: the command is started, both pipes are
\* empty, getRawMediaInfo is about to call io.ReadAll(stdout)
InitPipes ==
    /\ cmd \in { [todo |-> s, exited |-> FALSE] :
                    s \in UNION { Outputs(n) : n \in 0..MaxWrites } }
    /\ stdout = 0 /\ stderr = 0
    /\ stdoutBytes = 0 /\ stderrBytes = 0
    /\ at = "ReadAll(stdout)"
    /\ raw = <<>> /\ impl = "internal" /\ stage = "raw" /\ media = NoMedia
    /\ urlParam = <<>> /\ identified = "none"
    /\ ServiceInit

\* yt-dlp writes its next chunk; the write blocks while the pipe is full
Write ==
    /\ ~cmd.exited
    /\ cmd.todo # <<>>
    /\ IF Head(cmd.todo) = "stdout"
       THEN stdout < PipeCap /\ stdout' = stdout + 1 /\ UNCHANGED stderr
       ELSE stderr < PipeCap /\ stderr' = stderr + 1 /\ UNCHANGED stdout
    /\ cmd' = [cmd EXCEPT !.todo = Tail(@)]
    /\ UNCHANGED <<stdoutBytes, stderrBytes, at>>
    /\ UNCHANGED <<fvars, svars, uvars>>

\* yt-dlp has written everything and exits, which closes its pipe ends
Exit ==
    /\ ~cmd.exited
    /\ cmd.todo = <<>>
    /\ cmd' = [cmd EXCEPT !.exited = TRUE]
    /\ UNCHANGED <<stdout, stderr, stdoutBytes, stderrBytes, at>>
    /\ UNCHANGED <<fvars, svars, uvars>>

\* stdoutBytes, err := io.ReadAll(stdout): takes what the pipe holds, blocks
\* on an empty pipe that is still open, ends at end-of-file
ReadAllStdout ==
    /\ at = "ReadAll(stdout)"
    /\ IF stdout > 0
       THEN /\ stdoutBytes' = stdoutBytes + stdout
            /\ stdout' = 0
            /\ UNCHANGED at
       ELSE /\ cmd.exited
            /\ at' = "ReadAll(stderr)"
            /\ UNCHANGED <<stdout, stdoutBytes>>
    /\ UNCHANGED <<cmd, stderr, stderrBytes>>
    /\ UNCHANGED <<fvars, svars, uvars>>

\* stderrBytes, err := io.ReadAll(stderr)
ReadAllStderr ==
    /\ at = "ReadAll(stderr)"
    /\ IF stderr > 0
       THEN /\ stderrBytes' = stderrBytes + stderr
            /\ stderr' = 0
            /\ UNCHANGED at
       ELSE /\ cmd.exited
            /\ at' = "wait"
            /\ UNCHANGED <<stderr, stderrBytes>>
    /\ UNCHANGED <<cmd, stdout, stdoutBytes>>
    /\ UNCHANGED <<fvars, svars, uvars>>

\* wait() and the return of getRawMediaInfo
Wait ==
    /\ at = "wait"
    /\ cmd.exited
    /\ at' = "returned"
    /\ UNCHANGED <<cmd, stdout, stderr, stdoutBytes, stderrBytes>>
    /\ UNCHANGED <<fvars, svars, uvars>>

NextPipes ==
    \/ Write
    \/ Exit
    \/ ReadAllStdout
    \/ ReadAllStderr
    \/ Wait

SpecPipes == InitPipes /\ [][NextPipes]_vars

(***************************************************************************)
(* Properties of the pipeline (SpecFormats)                                *)
(***************************************************************************)
Idx(s) == 1..Len(s)

\* every reordering of a sequence
Perms(s) == { [i \in Idx(s) |-> s[p[i]]] : p \in Permutations(Idx(s)) }

SameClass(f, g) ==
    f.Width = g.Width /\ f.Height = g.Height /\ f.FPS = g.FPS

SameOutClass(f, g) ==
    /\ f.VideoWidth = g.VideoWidth
    /\ f.VideoHeight = g.VideoHeight
    /\ f.VideoFPS = g.VideoFPS

Got == impl = "internal" /\ stage = "got"

\* C5 (as claimed): the output of getFormats holds at most one mp4 video
\* format per (width, height, frame rate) class, that format has the
\* maximum video bitrate of its class, and of several formats tying on the
\* maximum only the first-seen one is kept.
C5_OnePerVideoClass ==
    Got =>
        LET vf == SplitVideo(raw)
            mp4 == { i \in Idx(vf) : vf[i].Ext = "mp4" }
            Best(i) == \A j \in mp4 :
                           SameClass(vf[i], vf[j]) => vf[j].VBR <= vf[i].VBR
            First(i) == \A j \in mp4 :
                            (SameClass(vf[i], vf[j]) /\ vf[j].VBR = vf[i].VBR)
                                => i <= j
            outV == { k \in Idx(media.Formats) :
                          /\ media.Formats[k].HasVideo
                          /\ media.Formats[k].Extension = "mp4" }
        IN  /\ \A k, l \in outV :
                   SameOutClass(media.Formats[k], media.Formats[l]) => k = l
            /\ \A k \in outV : \E i \in mp4 :
                   /\ Best(i) /\ First(i)
                   /\ media.Formats[k] = ytFormatToMedia(vf[i], TRUE)

\* C6 (as claimed): the output of getFormats holds at most one audio-only
\* format per extension, that format has the maximum audio bitrate among
\* the audio-only formats of its extension, and of several formats tying on
\* the maximum only the first-seen one is kept.
C6_OnePerAudioExt ==
    Got =>
        LET af == SplitAudio(raw)
            Best(i) == \A j \in Idx(af) :
                           af[i].Ext = af[j].Ext => af[j].ABR <= af[i].ABR
            First(i) == \A j \in Idx(af) :
                            (af[i].Ext = af[j].Ext /\ af[j].ABR = af[i].ABR)
                                => i <= j
            outA == { k \in Idx(media.Formats) : ~media.Formats[k].HasVideo }
        IN  /\ \A k, l \in outA :
                   media.Formats[k].Extension = media.Formats[l].Extension
                       => k = l
            /\ \A k \in outA : \E i \in Idx(af) :
                   /\ Best(i) /\ First(i)
                   /\ media.Formats[k] = ytFormatToMedia(af[i], FALSE)

\* a raw format that passes the storyboard and zero-size filters and is not
\* audio-only
VideoCapable(f) == Usable(f) /\ f.Resolution # "audio only"

\* the only mp4 format of its (width, height, frame rate) combination
OnlyMp4OfClass(i) ==
    /\ raw[i].Ext = "mp4"
    /\ \A j \in Idx(raw) :
           (j # i /\ VideoCapable(raw[j]) /\ raw[j].Ext = "mp4")
               => ~SameClass(raw[i], raw[j])

InOutput(f) ==
    \E k \in Idx(media.Formats) : media.Formats[k] = ytFormatToMedia(f, TRUE)

\* C7 (as claimed): every video-capable raw format that is in a container
\* other than mp4, or is the only mp4 format of its (width, height, frame
\* rate) combination, appears in the output of getFormats.
C7_NonPreferredOrUniqueKept ==
    Got =>
        \A i \in Idx(raw) :
            (VideoCapable(raw[i]) /\ (raw[i].Ext # "mp4" \/ OnlyMp4OfClass(i)))
                => InOutput(raw[i])

\* C7 (amended): every video-capable raw format that is the only mp4 format
\* of its (width, height, frame rate) combination appears in the output of
\* getFormats, and no video format of another container appears in it.
C7_UniqueMp4Kept ==
    Got =>
        /\ \A i \in Idx(raw) :
               (VideoCapable(raw[i]) /\ OnlyMp4OfClass(i)) => InOutput(raw[i])
        /\ \A k \in Idx(media.Formats) :
               media.Formats[k].HasVideo => media.Formats[k].Extension = "mp4"

\* a 1080p60 mp4 format stands alone in its class beside a 1080p30 mp4
\* format of higher bitrate and a webm format; it is in the output
C7_Witness ==
    /\ Got
    /\ \E i, j, w \in Idx(raw) :
           /\ VideoCapable(raw[i]) /\ OnlyMp4OfClass(i)
           /\ VideoCapable(raw[j]) /\ raw[j].Ext = "mp4"
           /\ raw[j].Width = raw[i].Width /\ raw[j].Height = raw[i].Height
           /\ raw[j].FPS # raw[i].FPS /\ raw[j].VBR > raw[i].VBR
           /\ VideoCapable(raw[w]) /\ raw[w].Ext # "mp4"
           /\ InOutput(raw[i]) /\ ~InOutput(raw[w])

Sorted == impl = "internal" /\ stage = "sorted"

\* C8 (as claimed): after SortFormats every video-capable format precedes
\* every audio-only format.
C8_VideoBeforeAudio ==
    Sorted =>
        \A i, j \in Idx(media.Formats) :
            (media.Formats[i].HasVideo /\ ~media.Formats[j].HasVideo) => i < j

\* C8 (amended): after SortFormats every audio-only format precedes every
\* video-capable format.
C8_AudioBeforeVideo ==
    Sorted =>
        \A i, j \in Idx(media.Formats) :
            (~media.Formats[i].HasVideo /\ media.Formats[j].HasVideo) => i < j

\* a sorted list holding both kinds, which getFormats had produced with the
\* video formats first
C8_Witness ==
    /\ Sorted
    /\ \E i, j \in Idx(media.Formats) :
           ~media.Formats[i].HasVideo /\ media.Formats[j].HasVideo /\ i < j
    /\ LET before == CleanFormats(getFormats(raw))
       IN  before # media.Formats /\ before[1].HasVideo

\* resolution, then video bitrate, then size, descending
RankedVideo(a, b) ==
    LET aRes == a.VideoWidth * a.VideoHeight
        bRes == b.VideoWidth * b.VideoHeight
    IN  /\ aRes >= bRes
        /\ (aRes = bRes => a.VideoBitrate >= b.VideoBitrate)
        /\ ((aRes = bRes /\ a.VideoBitrate = b.VideoBitrate) => a.Size >= b.Size)

\* C9 (as claimed): in both SortFormats implementations, after sorting, any
\* two adjacent video formats a before b are ordered by resolution
\* descending, then video bitrate descending, then size descending.
C9_VideoRanking ==
    stage = "sorted" =>
        /\ \A i \in Idx(media.Formats) :
               (/\ i < Len(media.Formats)
                /\ media.Formats[i].HasVideo
                /\ media.Formats[i + 1].HasVideo)
                   => RankedVideo(media.Formats[i], media.Formats[i + 1])
        /\ \A i \in Idx(media.VideoFormats) :
               i < Len(media.VideoFormats)
                   => RankedVideo(media.VideoFormats[i], media.VideoFormats[i + 1])

\* C10 (as claimed): the output of SortFormats depends only on the formats,
\* not on their order: sorting any reordering of the cleaned formats gives
\* the sequence SortFormats produced.
C10_OrderIndependent ==
    stage = "sorted" =>
        /\ impl = "internal" =>
               \A q \in Perms(CleanFormats(getFormats(raw))) :
                   SortFormats(q) = media.Formats
        /\ impl = "backend" =>
               /\ \A q \in Perms(BackendCleanVideo(getVideoFormats(raw))) :
                      BackendSortVideo(q) = media.VideoFormats
               /\ \A q \in Perms(BackendCleanAudio(getAudioFormats(raw))) :
                      BackendSortAudio(q) = media.AudioFormats

(***************************************************************************)
(* Properties of the cache and the service (Spec, SpecService)             *)
(***************************************************************************)
\* C1 (as claimed): a Get(url) that returns before TTL has elapsed since
\* the Set(url, r) that preceded it, with no Set on url in between, returns
\* (r, true); a Get(url) issued more than TTL after the last Set(url, ...)
\* returns (nil, false), and so does every later one until a new Set.
C1_GetAfterSet ==
    \A p \in Procs :
        loc[p].getDone =>
            /\ loc[p].retEarly =>
                   (loc[p].retOk /\ loc[p].retVal = loc[p].seenRid)
            /\ loc[p].lateIssue => ~loc[p].retOk

\* the list response for result rid of url that a download request could
\* rely on when it arrived
ListedBefore(l) ==
    \E r \in l.known : r.url = l.url /\ r.rid = l.result.rid /\ l.id \in r.ids

\* C2: a download of a format of an earlier list response, served from the
\* cache entry (still Fresh) that the list response was built from, fails
\* neither with "format not found" nor with "general format not found",
\* and requests the stream of the raw format whose hashed FormatID is the
\* identifier.
C2_ListedFormatDownloads ==
    \A p \in Procs :
        (/\ pc[p] = "done" /\ loc[p].op = "download"
         /\ loc[p].cached /\ ListedBefore(loc[p]))
            => /\ loc[p].status \in {"ok", "download youtubedl failed"}
               /\ "result.Download" \in loc[p].calls
               /\ loc[p].requested \in
                      { f.FormatID : f \in { Catalog(loc[p].result.cat)[i] :
                                   i \in 1..Len(Catalog(loc[p].result.cat)) } }
               /\ Sha256Hex(loc[p].requested) = loc[p].id

\* a listed audio format is downloaded from the entry that was listed
C2_Witness ==
    \E p \in Procs :
        /\ pc[p] = "done" /\ loc[p].op = "download"
        /\ loc[p].cached /\ ListedBefore(loc[p])
        /\ loc[p].id = Sha256Hex("140")
        /\ loc[p].status = "ok"

RawIdentifiers(c) == { ytFormatHash(Catalog(c)[i]) : i \in 1..Len(Catalog(c)) }

\* C3: DownloadMedia fails with "format not found" and never calls
\* result.Download when the identifier is the hash of no raw format of the
\* extraction result in use.
C3_UnknownIdentifierFails ==
    \A p \in Procs :
        (/\ pc[p] = "done" /\ loc[p].op = "download"
         /\ loc[p].result # NoResult
         /\ loc[p].id \notin RawIdentifiers(loc[p].result.cat))
            => /\ loc[p].status = "format not found"
               /\ "result.Download" \notin loc[p].calls
               /\ loc[p].requested = ""

\* the identifier was listed, the entry expired and was deleted by Get, and
\* the new extraction no longer holds the format
C3_Witness ==
    \E p \in Procs :
        /\ pc[p] = "done" /\ loc[p].op = "download"
        /\ loc[p].path = "stale" /\ loc[p].result # NoResult
        /\ \E r \in loc[p].known : r.url = loc[p].url /\ loc[p].id \in r.ids
        /\ loc[p].id \notin RawIdentifiers(loc[p].result.cat)
        /\ loc[p].status = "format not found"

\* C4: media.FetchMedia (both variants) on a url that IdentifySource
\* classifies as Unknown returns "unsupported source" and calls neither the
\* extraction tool nor the cache.
C4_UnknownNeverExtracts ==
    \A p \in Procs :
        (/\ loc[p].op \in {"fetch", "fetchYtdlp"}
         /\ IdentifySource(Bytes(loc[p].url)) = "Unknown")
            => /\ loc[p].calls = {}
               /\ pc[p] = "done"
               /\ loc[p].status = "unsupported source"

\* an unsupported url is refused while the cache holds an entry
C4_Witness ==
    \E p \in Procs :
        /\ pc[p] = "done" /\ loc[p].op = "fetch"
        /\ IdentifySource(Bytes(loc[p].url)) = "Unknown"
        /\ loc[p].status = "unsupported source"
        /\ \E u \in URLs : cache[u].exists

(***************************************************************************)
(* Claims on the source classifier (SpecSources)                           *)
(***************************************************************************)
\* C11: IdentifySource(url) returns YouTube if and only if url parses and its
\* hostname, lowercased, is exactly one of the six listed names; every other
\* input (unparseable, empty hostname, unlisted subdomain, a name that merely
\* ends with a listed name) gives Unknown, and no call reports an error.
C11_ExactHostnameMatch ==
    identified # "none" =>
        /\ identified \in {"YouTube", "Unknown"}
        /\ identified = "YouTube" <=>
               /\ ~URLParse(urlParam).err
               /\ ToLower(Hostname(URLParse(urlParam).Host)) \in ListedHosts
        /\ \A p \in Prefixes, h \in UnlistedHosts, q \in Ports, t \in Tails :
               urlParam = p \o h \o q \o t => identified = "Unknown"

\* a url in upper case with a port and user information is classified YouTube
C11_Witness ==
    /\ identified = "YouTube"
    /\ ToLower(urlParam) # urlParam
    /\ Hostname(URLParse(urlParam).Host) # URLParse(urlParam).Host
    /\ Index(urlParam, "@") # 0

(***************************************************************************)
(* Claims on the normalizer (SpecFormats)                                  *)
(***************************************************************************)
\* the raw format an output format was made from
MadeFrom(format, rawFormat) == format.SourceIdentifier = ytFormatHash(rawFormat)

HasCodec(codec) == codec # "" /\ codec # "none"

\* C12 (as claimed): every Format that getFormats produces has HasAudio true
\* if and only if the raw audio codec is non-empty and not "none", and
\* HasVideo true if and only if the raw video codec is non-empty and not
\* "none".
C12_CapabilityFlags ==
    Got =>
        \A k \in 1..Len(media.Formats), i \in 1..Len(raw) :
            MadeFrom(media.Formats[k], raw[i]) =>
                /\ media.Formats[k].HasAudio <=> HasCodec(raw[i].ACodec)
                /\ media.Formats[k].HasVideo <=> HasCodec(raw[i].VCodec)

\* the same format slot as a later extraction reports it: other bitrates,
\* size, codecs and container
Remeasured(f) ==
    [f EXCEPT !.VBR = IF @ > 0 THEN @ + 100 ELSE @,
              !.ABR = IF @ > 0 THEN @ + 10 ELSE @,
              !.Filesize = @ + 1,
              !.VCodec = IF @ = "none" THEN @ ELSE "vp9",
              !.ACodec = IF @ = "none" THEN @ ELSE "opus",
              !.Ext = "mkv"]

Reextracted == RawPool \cup { Remeasured(f) : f \in RawPool }

\* C13: the stable identifier depends on the raw FormatID only: raw formats
\* with equal FormatID get equal identifiers whatever their bitrate, size,
\* codec or extension, in the same or in another extraction, and raw formats
\* with different FormatID get different identifiers.
C13_IdentifierOfFormatID ==
    Got =>
        \A i \in 1..Len(raw) :
            \A g \in Reextracted \cup { raw[j] : j \in 1..Len(raw) } :
                (raw[i].FormatID = g.FormatID)
                    <=> (ytFormatHash(raw[i]) = ytFormatHash(g))

\* some listed format is found again, under its identifier, in a later
\* extraction that measured it differently, next to a second listed format
C13_Witness ==
    /\ Got
    /\ Len(media.Formats) >= 2
    /\ \E k \in 1..Len(media.Formats), i \in 1..Len(raw) :
          /\ MadeFrom(media.Formats[k], raw[i])
          /\ Remeasured(raw[i]) # raw[i]
          /\ MadeFrom(media.Formats[k], Remeasured(raw[i]))

\* C14: in the Media that GetMedia builds from one extraction result no two
\* Formats have the same SourceIdentifier.
C14_UniqueIdentifiers ==
    Got =>
        \A k, l \in 1..Len(media.Formats) :
            k # l => media.Formats[k].SourceIdentifier
                         # media.Formats[l].SourceIdentifier

\* a Media with a video format that carries audio and an audio-only format
C14_Witness ==
    /\ Got
    /\ \E k, l \in 1..Len(media.Formats) :
          /\ media.Formats[k].HasVideo
          /\ HasCodec(media.Formats[k].AudioCodec)
          /\ ~media.Formats[l].HasVideo

(***************************************************************************)
(* Claims on the extraction invoker and the handlers (SpecService,         *)
(* SpecCancel) and on the sweep goroutines (Spec)                          *)
(***************************************************************************)
\* C15 (as claimed): getRawMediaInfo returns a nil error only if the process
\* started, both pipes were read, it exited with status zero, wrote nothing
\* to stderr and wrote a JSON record to stdout, and then it returns that
\* record; a byte on stderr fails the call even when the exit status is
\* zero; on every failure the returned record is nil.
C15_RecordOnlyOnCleanRun ==
    \A p \in Procs :
        (pc[p] = "done" /\ "ytdlp.run" \in loc[p].calls) =>
            LET proc == loc[p].proc
                r == getRawMediaInfo(proc)
            IN  /\ r.err = "ok" =>
                       /\ proc.started /\ proc.readErr = "none"
                       /\ proc.exit = 0 /\ proc.stderrBytes = 0
                       /\ proc.stdout \in Cats
                       /\ r.mediaInfo = proc.stdout
                       /\ loc[p].mediaInfo = r.mediaInfo
                /\ proc.stderrBytes > 0 => r.err # "ok"
                /\ r.err # "ok" =>
                       r.mediaInfo = NilMediaInfo /\ loc[p].status = r.err

\* C17 (as claimed): at most one sweep goroutine of the cache is alive at
\* any time, whatever the interleaving of Get calls and sweep passes.
C17_OneSweeper == Len(sweepers) <= 1

\* C18 (as claimed): when the request context is cancelled while the
\* extraction started by media.FetchMedia is in flight, the invocation
\* returns and the yt-dlp process is terminated.
C18_CancelEndsExtraction ==
    \A p \in Procs :
        (loc[p].cancelled /\ loc[p].running)
            ~> (pc[p] = "done" /\ ~loc[p].running)

\* C19 (as claimed): list-formats failing on an Unknown source is answered
\* with a 4xx status, resolve-for-download failing on an identifier that is
\* not found is answered with 404.
C19_ClientErrorStatuses ==
    \A p \in Procs :
        pc[p] = "done" =>
            /\ (/\ loc[p].op \in {"fetch", "fetchYtdlp"}
                /\ loc[p].status = "unsupported source")
                   => ResponseStatus(loc[p]) \in 400..499
            /\ (/\ loc[p].op = "download"
                /\ loc[p].status = "format not found")
                   => ResponseStatus(loc[p]) = 404

(***************************************************************************)
(* Claims on concurrent first-time requests (Spec) and on failed           *)
(* extractions (SpecService)                                               *)
(***************************************************************************)
\* p and q both ran youtube.FetchMedia to its return for one url that no Set
\* had stored when either call began, and no goutubedl.New of theirs failed
FirstTimePair(p, q) ==
    /\ p # q
    /\ pc[p] = "done" /\ pc[q] = "done"
    /\ loc[p].op = "fetch" /\ loc[q].op = "fetch"
    /\ loc[p].url = loc[q].url
    /\ loc[p].firstTime /\ loc[q].firstTime
    /\ loc[p].getDone /\ loc[q].getDone
    /\ loc[p].status # "new youtubedl failed"
    /\ loc[q].status # "new youtubedl failed"

\* the step on which the second of the calls p and q returns
SecondReturns(p, q) == pc[p] # "done" /\ FirstTimePair(p, q)'

\* C16 as stated: two concurrent youtube.FetchMedia calls for one url that is
\* not in the cache return equivalent Media and leave the cache holding a
\* Fresh entry for the url.
C16_EqualMediaFreshEntry ==
    [][ \A p, q \in Procs :
            SecondReturns(p, q) =>
                /\ loc'[p].formats = loc'[q].formats
                /\ cache'[loc'[p].url].exists
                /\ cache'[loc'[p].url].age <= MaxAge ]_vars

\* when the second of two first-time calls returns: both succeeded, their
\* Media are equal if goutubedl.New reported the same formats to both, the
\* last Set on the url is one of theirs, and until the TTL has passed since
\* that Set the map holds its entry, Fresh, with the result of one of them
PairOutcome ==
    [][ \A p, q \in Procs :
            SecondReturns(p, q) =>
                /\ loc'[p].status = "ok" /\ loc'[q].status = "ok"
                /\ loc'[p].result.cat = loc'[q].result.cat
                       => loc'[p].formats = loc'[q].formats
                /\ lastSet'[loc'[p].url].rid
                       \in {loc'[p].result.rid, loc'[q].result.rid}
                /\ lastSet'[loc'[p].url].age <= MaxAge =>
                       /\ cache'[loc'[p].url].exists
                       /\ cache'[loc'[p].url].age <= MaxAge
                       /\ cache'[loc'[p].url].result
                              \in {loc'[p].result, loc'[q].result} ]_vars

\* every cache.Get that was called returns, through c.mu.RLock() and, for an
\* expired entry, c.mu.Lock()
GetTerminates ==
    \A p \in Procs : (pc[p] = "get") ~> (pc[p] \in {"extract", "done"})

\* every call whose goutubedl.New succeeded gets through c.mu.Lock() in
\* cache.Set and returns successfully
SetTerminates ==
    \A p \in Procs :
        (pc[p] = "set") ~> (pc[p] = "done" /\ loc[p].status = "ok")

\* C16 (amended): two concurrent youtube.FetchMedia calls for one url that is
\* not in the cache, under every interleaving of their Get, extraction and Set
\* steps and of the sweep: no call waits for the cache lock for ever, every
\* call whose extraction succeeds returns successfully, the two Media are
\* equal when the tool reported the same formats to both, and when the second
\* call returns the cache holds one Fresh entry for the url, the result of one
\* of them, unless the TTL has passed since it was stored.
C16_ConcurrentFirstFetch == PairOutcome /\ GetTerminates /\ SetTerminates

\* both calls missed, both ran goutubedl.New and Set, both have returned
C16_Witness ==
    \E p, q \in Procs :
        /\ FirstTimePair(p, q)
        /\ loc[p].path = "miss" /\ loc[q].path = "miss"
        /\ "cache.Set" \in loc[p].calls /\ "cache.Set" \in loc[q].calls
        /\ loc[p].result.rid # loc[q].result.rid
        /\ loc[p].formats = loc[q].formats
        /\ loc[p].formats # <<>>
        /\ cache[loc[p].url].exists
        /\ cache[loc[p].url].age <= MaxAge

\* C20: a failed goutubedl.New stores nothing for the url, and the next
\* FetchMedia or DownloadMedia for that url finds the key absent and calls
\* goutubedl.New again.
C20_FailedExtractionNotCached ==
    /\ \A u \in failed : ~cache[u].exists
    /\ \A p \in Procs :
          (loc[p].url \in failed /\ loc[p].getDone) =>
              /\ ~loc[p].retOk
              /\ pc[p] = "extract" \/ "goutubedl.New" \in loc[p].calls

\* a download request after a failed extraction for its url: Get reported a
\* miss and the request is about to call goutubedl.New
C20_Witness ==
    \E p \in Procs :
        /\ loc[p].op = "download"
        /\ loc[p].url \in failed
        /\ loc[p].getDone /\ ~loc[p].retOk
        /\ pc[p] = "extract"

(***************************************************************************)
(* Claims on the pre-filter (SpecFormats)                                  *)
(***************************************************************************)
Cleaned == impl = "internal" /\ stage = "cleaned"

\* the pre-filter on raw formats: no storyboard, a size, a bitrate
PreFilterKeep(f) ==
    /\ f.FormatNote # "storyboard"
    /\ f.Filesize # 0 \/ f.FilesizeApprox # 0
    /\ f.VBR > 0 \/ f.ABR > 0

\* C21: every Format of the list response (getFormats, then CleanFormats)
\* comes from a raw format that is no storyboard, has a non-zero declared or
\* approximate size and has a video or an audio bitrate above zero; and the
\* response is what deduplication gives when the pre-filter is applied
\* before it.
C21_PreFilterCommutes ==
    Cleaned =>
        /\ \A k \in 1..Len(media.Formats) :
              \E i \in 1..Len(raw) :
                  /\ MadeFrom(media.Formats[k], raw[i])
                  /\ PreFilterKeep(raw[i])
        /\ media.Formats = getFormats(SelectSeq(raw, PreFilterKeep))

\* a format without bitrates shares its class with a format that is listed
C21_Witness ==
    /\ Cleaned
    /\ \E i, j \in 1..Len(raw) :
          /\ i # j
          /\ Usable(raw[i]) /\ ~PreFilterKeep(raw[i])
          /\ raw[i].Ext = "mp4" /\ raw[j].Ext = "mp4"
          /\ raw[i].Width = raw[j].Width /\ raw[i].Height = raw[j].Height
          /\ raw[i].FPS = raw[j].FPS
          /\ \E k \in 1..Len(media.Formats) : MadeFrom(media.Formats[k], raw[j])

(***************************************************************************)
(* Claims on the cache: expiry, locking and the sweep (Spec, SpecService)  *)
(***************************************************************************)
\* C22 (as claimed): an entry is Stale as soon as its age is greater than or
\* equal to TTL: Get on an entry whose age is exactly TTL reports Absent and
\* removes the entry.
C22_StaleAtTTL ==
    [][ \A p \in Procs :
          (/\ pc[p] = "get_check" /\ pc'[p] # "get_check"
           /\ loc[p].entry.exists
           /\ loc[p].entry.age >= MaxAge)
              => pc'[p] = "get_delete" ]_vars

\* C23 (as claimed): Get never deletes a Fresh entry: what Get's
\* expiry-on-read removes is the expired entry Get observed, and an entry
\* that Set wrote after Get released the read lock is still there when Get
\* returns.
C23_GetDeletesWhatItSaw ==
    [][ \A p \in Procs :
          (pc[p] = "get_delete" /\ pc'[p] = "extract") =>
              (cache[loc[p].url].exists =>
                  /\ cache[loc[p].url].age > MaxAge
                  /\ cache[loc[p].url].result = loc[p].entry.result) ]_vars

\* what the map holds, without the ages
Stored(entries) ==
    [u \in URLs |-> [exists |-> entries[u].exists, result |-> entries[u].result]]

\* C24 (as claimed): every write to the map and to hasClean is made under
\* the exclusive lock: no goroutine holds the read lock when either changes.
C24_WritesUnderLock ==
    [][ (Stored(cache') # Stored(cache) \/ hasClean' # hasClean)
            => NoReaders ]_vars

\* C25: a sweep pass removes exactly the entries older than TTL; a pass that
\* leaves the map empty clears hasClean and ends its goroutine in one
\* critical section, any other pass keeps both; a Get that reads hasClean
\* false starts a sweep goroutine; and whenever hasClean is true a sweep
\* goroutine is alive.
C25_SweepLifecycle ==
    [][ /\ hasClean => Len(sweepers) >= 1
        /\ SweepPass =>
              /\ \A u \in URLs :
                    cache'[u] = IF cache[u].exists /\ cache[u].age <= MaxAge
                                THEN cache[u] ELSE NoEntry
              /\ IF \E u \in URLs : cache'[u].exists
                 THEN hasClean' /\ Len(sweepers') = Len(sweepers)
                 ELSE ~hasClean' /\ Len(sweepers') = Len(sweepers) - 1
        /\ \A p \in Procs :
              (pc[p] = "get_rlocked" /\ pc'[p] = "get_check" /\ ~loc[p].sawClean)
                  => hasClean' /\ Len(sweepers') = Len(sweepers) + 1 ]_vars

\* after a sweep emptied the map and ended (Get read hasClean false although
\* a result for its URL had been stored before), that Get has started the
\* next sweep
C25_Witness ==
    \E p \in Procs :
        /\ pc[p] = "get_check"
        /\ ~loc[p].sawClean
        /\ loc[p].seenRid # 0
        /\ ~loc[p].entry.exists
        /\ hasClean
        /\ Len(sweepers) = 1

\* C26 (as claimed): every entry stored by Set is removed after its TTL even
\* if no Get follows; equivalently, whenever the map is non-empty a sweep
\* goroutine is alive.
C26_SweeperWhileNonEmpty ==
    (\E u \in URLs : cache[u].exists) => Len(sweepers) >= 1

\* C28 (as claimed): on the download path the cache and the extractor are
\* used only for URLs that IdentifySource classifies as a known provider: a
\* download of a URL that classifies as Unknown fails with "unsupported
\* source" without cache.Get, goutubedl.New or cache.Set, whatever source
\* value the caller passes.
C28_DownloadOnlyKnownURLs ==
    \A p \in Procs :
        (loc[p].op = "download" /\ SourceOf[loc[p].url] = "Unknown") =>
            /\ loc[p].calls = {}
            /\ pc[p] = "done" => loc[p].status = "unsupported source"

(***************************************************************************)
(* Claim on the subprocess pipes (SpecPipes)                               *)
(***************************************************************************)
\* C27 (as claimed): for a yt-dlp that writes any finite output to stdout and
\* stderr in any order through bounded pipes and then exits, getRawMediaInfo
\* never blocks forever: until it has returned, it or the subprocess can
\* take a step.
C27_InvokerNeverBlocked ==
    at # "returned" => ENABLED NextPipes

====
